---- MODULE Spec2Model ----
(***************************************************************************)
(* BotRunner (bar handlers, admission gate, protective exits) together     *)
(* with PositionStateManager (reconciliation against the REST poller).     *)
(*                                                                         *)
(* Times are milliseconds.  Percentages are carried in tenths of a percent *)
(* (0.3 % is 3, 1.0 % is 10) and every percentage comparison of the source *)
(* is cross-multiplied, so the arithmetic is exact integer arithmetic.     *)
(*                                                                         *)
(* A bar handler is one promise chain of handleTick.  It runs without      *)
(* interruption between two executor calls; `running` names the handler    *)
(* that is inside such a synchronous stretch (0 when the event loop is     *)
(* free to take the next tick, poll, timer or executor completion).        *)
(***************************************************************************)
EXTENDS Integers, Sequences, FiniteSets, TLC

\* ------------------------------------------------------------ constants
HOUR_MS == 60 * 60 * 1000
cooldownPeriod == 3600000
minHoldTimeMs == 300000
freezeDurationMs == 60000
minTimeBeforeExit == 30000
minTimeBeforePeachExit == 60000
maxReconciliationFailures == 2
minBarsAfterClose == 2
timeframeMs == 30000
trailingStopPct == 3
trailingActivationPct == 3
rsiExitProfitPct == 5
peachEmergencyStopPct == 10
defaultEmergencyStopPct == 20
adxThreshold == 25

\* null / undefined of a number-valued field.  Every such field of the
\* source is either compared with null or tested for truthiness, and the
\* values it can hold besides are positive.
Null == 0

\* ------------------------------------------------------------ bounds
\* Spec: overlapping bar handlers
MaxHandlers == 2
MaxPolls == 3
MaxSteps == 2
\* SpecRecon: reconciliation and freezing
ReconPolls == 4
ReconSteps == 2
\* SpecGate: the admission gate
GatePolls == 2
GateSteps == 3
\* SpecCool: the consecutive-loss cooldown
CoolPolls == 3
CoolSteps == 3
\* SpecFlip: the flip budget
FlipPolls == 2
FlipSteps == 3
\* SpecRisk: the risk configuration
RiskPolls == 3
RiskSteps == 3

\* Date.now() when the runner is constructed; later than every duration above
\* so that `timestamp - 0` exceeds them as it does with epoch milliseconds.
StartTime == 2 * HOUR_MS

Prices == {99, 100, 101}
Handlers == 1..MaxHandlers

Abs(x) == IF x < 0 THEN -x ELSE x
Min(a, b) == IF a < b THEN a ELSE b
Max(a, b) == IF a > b THEN a ELSE b

\* ------------------------------------------------------------ state
VARIABLES
  now,        \* Date.now()
  config,     \* AppConfig: strategy variant and RiskConfig
  bot,        \* BotRunner fields
  psm,        \* PositionStateManager fields
  eng,        \* strategy engine: its position and last indicator values
  timers,     \* pending setTimeout callbacks of freezeTrading (due times)
  tasks,      \* bar handlers in flight
  running,    \* handler inside a synchronous stretch, or 0
  barEnd,     \* endTime of the last bar handed out by the bar builder
  nPolls,     \* polls delivered
  nSteps,     \* clock steps taken
  genuineRun, \* consecutive genuine mismatches, and the same since the last unfreeze timer
  freezeStart,\* Date.now() when tradingFrozen last went from false to true
  lossRun,    \* closes in a row that lost on the position they were submitted for
  hist,       \* the flips applied, the bar of the last close, the current holding
  ev          \* the step just taken: its input, what it returned and what it logged

vars == <<now, config, bot, psm, eng, timers, tasks, running, barEnd,
          nPolls, nSteps, genuineRun, freezeStart, lossRun, hist, ev>>

\* ------------------------------------------------------------ configuration
PeachConfig ==
  [isPeachHybrid |-> TRUE, useStopLoss |-> FALSE, stopLossPct |-> 0,
   emergencyStopLoss |-> 20, maxFlipsPerHour |-> 2,
   maxPositionSize |-> 1, maxLeverage |-> 1, requireTrendingMarket |-> TRUE]

WatermellonConfig ==
  [isPeachHybrid |-> FALSE, useStopLoss |-> TRUE, stopLossPct |-> 10,
   emergencyStopLoss |-> 20, maxFlipsPerHour |-> 2,
   maxPositionSize |-> 1, maxLeverage |-> 1, requireTrendingMarket |-> TRUE]

Configs == {PeachConfig, WatermellonConfig}

\* REQUIRE_TRENDING_MARKET=false
PeachAnyRegime == [PeachConfig EXCEPT !.requireTrendingMarket = FALSE]

\* USE_STOP_LOSS=false, STOP_LOSS_PCT=0
WatermellonNoStop == [WatermellonConfig EXCEPT !.useStopLoss = FALSE, !.stopLossPct = 0]

RiskConfigs == Configs \cup {PeachAnyRegime, WatermellonNoStop}

\* ------------------------------------------------------------ records
FlatPosition == [side |-> "flat", size |-> 0, entryPrice |-> Null, openedAt |-> Null]

NoOrder == [side |-> "none", size |-> 0, timestamp |-> 0]

NoBar == [endTime |-> 0, close |-> 0]

NoIndicators == [adx |-> Null, rsi |-> Null, atr |-> Null, recentHigh |-> Null, recentLow |-> Null]

IdleTask ==
  [pc |-> "idle", bar |-> NoBar, signal |-> "none", reason |-> "", exitPrice |-> 0,
   target |-> FlatPosition, peDone |-> FALSE, peOutcome |-> "none",
   frozenAtTick |-> FALSE, frozenAtSubmit |-> FALSE]

NoLog == [action |-> "NONE", skipReason |-> ""]

\* nothing applied, nothing closed, nothing held
NoHistory == [flips |-> <<>>, closedBar |-> 0, heldSince |-> 0, best |-> 0]

\* ------------------------------------------------------------ PositionStateManager
\* variant: a negative positionAmt read as no position
normalizeLongOnly(report) ==
  [size |-> Abs(report.positionAmt),
   side |-> IF report.positionAmt > 0 THEN "long" ELSE "flat",
   avgEntry |-> report.entryPrice]

\* restStateNormalized of updateFromRest: parseFloat of positionAmt, the side
\* from its sign, the size its absolute value, parseFloat(entryPrice) || 0.
normalize(report) ==
  [size |-> Abs(report.positionAmt),
   side |-> IF report.positionAmt > 0 THEN "long"
            ELSE IF report.positionAmt < 0 THEN "short" ELSE "flat",
   avgEntry |-> report.entryPrice]

reconcile(rest, local) ==
  LET sizeMatch == Abs(rest.size - local.size) * 10000 < 1
      sideMatch == rest.side = local.side
      entryMatch == rest.avgEntry = 0
                    \/ Abs(rest.avgEntry - local.avgEntry) * 100 < rest.avgEntry
  IN IF rest.side = "flat" /\ local.side = "flat"
     THEN sizeMatch /\ sideMatch
     ELSE sizeMatch /\ sideMatch /\ entryMatch

\* variant: the authoritative entry price is not taken over
adoptKeepEntry(p, rest) ==
  [p EXCEPT !.reconciliationFailures = 0,
            !.state = [@ EXCEPT !.size = rest.size, !.side = rest.side]]

adopt(p, rest) ==
  [p EXCEPT !.reconciliationFailures = 0,
            !.state = [@ EXCEPT !.size = rest.size, !.side = rest.side,
                                !.avgEntry = rest.avgEntry]]

\* updateFromRest: the new manager and the returned boolean
updateFromRest(p, report) ==
  LET rest == normalize(report)
      local == p.state
  IN IF reconcile(rest, local)
     THEN [psm |-> adopt(p, rest), ok |-> TRUE]
     ELSE IF rest.side = "flat" /\ local.side # "flat"
     THEN [psm |-> adopt(p, rest), ok |-> TRUE]
     ELSE IF rest.side # "flat" /\ local.side = "flat"
     THEN [psm |-> adopt(p, rest), ok |-> TRUE]
     ELSE [psm |-> [p EXCEPT !.reconciliationFailures = @ + 1], ok |-> FALSE]

\* variant: the freeze asks for two failures more
shouldFreezeTradingLate(p) == p.reconciliationFailures >= maxReconciliationFailures + 2

shouldFreezeTrading(p) == p.reconciliationFailures >= maxReconciliationFailures

resetReconciliationFailures(p) == [p EXCEPT !.reconciliationFailures = 0]

clearPendingOrder(p) == [p EXCEPT !.state.pendingOrder = NoOrder]

setPendingOrder(p, order) == [p EXCEPT !.state.pendingOrder = order]

updateLocalState(p, side, size, avgEntry) ==
  [p EXCEPT !.state = [@ EXCEPT !.side = side, !.size = size, !.avgEntry = avgEntry]]

\* ------------------------------------------------------------ initial state
InitOf(configs, engines) ==
  /\ now = StartTime
  /\ config \in configs
  /\ bot = [position |-> FlatPosition, flipHistory |-> <<>>, lastPositionEntryTime |-> 0,
            tradingFrozen |-> FALSE, freezeUntil |-> 0, lastBarCloseTime |-> 0,
            lastBar |-> NoBar, highestPrice |-> Null, lowestPrice |-> Null,
            consecutiveLosses |-> 0, lastLossTime |-> 0, lastPositionCloseTime |-> 0,
            usdtBalance |-> 0,
            unsubscribers |-> 3, polling |-> TRUE, stopPc |-> "none"]
  /\ psm = [state |-> [size |-> 0, side |-> "flat", avgEntry |-> 0, pendingOrder |-> NoOrder],
            reconciliationFailures |-> 0]
  /\ eng \in engines
  /\ timers = <<>>
  /\ tasks = [h \in Handlers |-> IdleTask]
  /\ running = 0
  /\ barEnd = StartTime
  /\ nPolls = 0
  /\ nSteps = 0
  /\ genuineRun = [all |-> 0, sinceTimer |-> 0]
  /\ freezeStart = 0
  /\ lossRun = [n |-> 0, last |-> 0]
  /\ hist = NoHistory
  /\ ev = [kind |-> "init"]

InitWith(configs) == InitOf(configs, {[position |-> "flat", ind |-> NoIndicators]})

Init == InitWith(Configs)

InitRisk == InitWith(RiskConfigs)


\* ------------------------------------------------------------ history
FlipReasons == {"flip-long", "flip-short"}

\* the holding after a report the runner adopts: none when it is flat, a new
\* one from now when the side is not the side held before
heldAfterReport(hs, sideBefore, rest, t) ==
  IF rest.side = "flat" THEN [hs EXCEPT !.heldSince = 0, !.best = 0]
  ELSE IF rest.side # sideBefore THEN [hs EXCEPT !.heldSince = t, !.best = rest.avgEntry]
  ELSE hs

\* the best bar close for the holding, from its entry price on
bestAfterBar(hs, pos, close) ==
  IF pos.side = "long" THEN [hs EXCEPT !.best = IF @ = 0 THEN close ELSE Max(@, close)]
  ELSE IF pos.side = "short" THEN [hs EXCEPT !.best = IF @ = 0 THEN close ELSE Min(@, close)]
  ELSE hs

\* ------------------------------------------------------------ REST poller
\* the runner's position as startRestPolling builds it from the manager's state;
\* openedAt is state.lastUpdate, which updateFromRest has just set to Date.now()
positionFromState(st, t) ==
  [side |-> st.side, size |-> st.size,
   entryPrice |-> IF st.avgEntry > 0 THEN st.avgEntry ELSE Null,
   openedAt |-> t]

freezeTrading(b, t, durationMs) ==
  [b EXCEPT !.tradingFrozen = TRUE, !.freezeUntil = t + durationMs]

Frozen(b, t) == b.tradingFrozen /\ t < b.freezeUntil

\* restPoller.on("position", ...)
RestPosition(report, maxPolls) ==
  /\ running = 0
  /\ bot.polling
  /\ nPolls < maxPolls
  /\ nPolls' = nPolls + 1
  /\ LET r == updateFromRest(psm, report)
         rest == normalize(report)
         genuine == /\ ~r.ok
                    /\ rest.side # "flat" /\ psm.state.side # "flat"
                    /\ rest.side # psm.state.side
     IN
     /\ ev' = [kind |-> "poll", rest |-> rest, localSide |-> psm.state.side, ok |-> r.ok,
               failuresBefore |-> psm.reconciliationFailures, held |-> bot.position.side]
     /\ genuineRun' = IF genuine
                      THEN [all |-> Min(genuineRun.all + 1, 3),
                            sinceTimer |-> Min(genuineRun.sinceTimer + 1, 3)]
                      ELSE [all |-> 0, sinceTimer |-> 0]
     /\ hist' = IF r.ok THEN heldAfterReport(hist, bot.position.side, rest, now) ELSE hist
     /\ IF ~r.ok
        THEN /\ psm' = r.psm
             /\ IF shouldFreezeTrading(r.psm)
                THEN /\ bot' = freezeTrading(bot, now, freezeDurationMs)
                     /\ timers' = Append(timers, now + freezeDurationMs)
                     /\ freezeStart' = IF bot.tradingFrozen THEN freezeStart ELSE now
                ELSE UNCHANGED <<bot, timers, freezeStart>>
        ELSE /\ psm' = IF report.positionAmt # 0 THEN r.psm ELSE clearPendingOrder(r.psm)
             /\ bot' = [bot EXCEPT !.position = positionFromState(r.psm.state, now)]
             /\ UNCHANGED <<timers, freezeStart>>
  /\ UNCHANGED <<now, config, eng, tasks, running, barEnd, nSteps, lossRun>>

\* restPoller.on("balance", ...)
RestBalance(balance) ==
  /\ running = 0
  /\ bot.polling
  /\ bot.usdtBalance # balance
  /\ bot' = [bot EXCEPT !.usdtBalance = balance]
  /\ ev' = [kind |-> "balance"]
  /\ UNCHANGED <<now, config, psm, eng, timers, tasks, running, barEnd,
                 nPolls, nSteps, genuineRun, freezeStart, lossRun, hist>>

\* the setTimeout callback of freezeTrading
UnfreezeTimer ==
  /\ running = 0
  /\ timers # <<>>
  /\ Head(timers) <= now
  /\ timers' = Tail(timers)
  /\ bot' = [bot EXCEPT !.tradingFrozen = FALSE]
  /\ psm' = resetReconciliationFailures(psm)
  /\ genuineRun' = [genuineRun EXCEPT !.sinceTimer = 0]
  /\ ev' = [kind |-> "timer"]
  /\ UNCHANGED <<now, config, eng, tasks, running, barEnd,
                 nPolls, nSteps, freezeStart, lossRun, hist>>

\* the clock: a timer that is due fires before the clock moves on
Advance(d, maxSteps) ==
  /\ running = 0
  /\ nSteps < maxSteps
  /\ \A i \in 1..Len(timers) : timers[i] > now
  /\ now' = now + d
  /\ nSteps' = nSteps + 1
  /\ ev' = [kind |-> "clock"]
  /\ UNCHANGED <<config, bot, psm, eng, timers, tasks, running, barEnd,
                 nPolls, genuineRun, freezeStart, lossRun, hist>>


\* ------------------------------------------------------------ protective exits
\* variant: protective exits switched off while trading is frozen
protectiveExitsApplyUnlessFrozen(b) ==
  ~b.tradingFrozen /\ b.position.side # "flat" /\ b.position.entryPrice # Null

protectiveExitsApply(b) ==
  b.position.side # "flat" /\ b.position.entryPrice # Null

\* evaluateProtectiveExits up to its close: the reason of the close it asks
\* for ("none" when it returns without one) and the runner after it
evaluateProtectiveExits(b, e, cfg, bar) ==
  IF ~protectiveExitsApply(b) THEN [reason |-> "none", bot |-> b]
  ELSE
    LET pos == b.position
        entry == pos.entryPrice
        close == bar.close
        long == pos.side = "long"
        short == pos.side = "short"
        timeSinceEntry ==
          bar.endTime - (IF pos.openedAt # Null THEN pos.openedAt ELSE b.lastPositionEntryTime)
        dwell == timeSinceEntry >= minTimeBeforeExit
        rsi == e.ind.rsi
        peach == cfg.isPeachHybrid
        \* profitPct * entry / 100, in the position's direction
        diff == IF long THEN close - entry ELSE entry - close
        hi == IF long /\ (b.highestPrice = Null \/ close > b.highestPrice)
              THEN close ELSE b.highestPrice
        lo == IF short /\ (b.lowestPrice = Null \/ close < b.lowestPrice)
              THEN close ELSE b.lowestPrice
        marked == [b EXCEPT !.highestPrice = hi, !.lowestPrice = lo]
        effectiveStopLoss ==
          IF peach THEN peachEmergencyStopPct
          ELSE IF cfg.emergencyStopLoss # 0 THEN cfg.emergencyStopLoss
          ELSE defaultEmergencyStopPct
        beyond(pct) == \/ long /\ close * 1000 <= entry * (1000 - pct)
                       \/ short /\ close * 1000 >= entry * (1000 + pct)
    IN
    IF peach /\ rsi # Null /\ dwell /\ long /\ rsi > 75
      THEN [reason |-> "rsi-overbought", bot |-> b]
    ELSE IF peach /\ rsi # Null /\ dwell /\ short /\ rsi < 25
      THEN [reason |-> "rsi-oversold", bot |-> b]
    ELSE IF ~peach /\ cfg.useStopLoss /\ cfg.stopLossPct # 0
            /\ diff * 1000 <= (-Abs(cfg.stopLossPct)) * entry
      THEN [reason |-> "watermelon-stop-loss", bot |-> b]
    ELSE IF ~peach /\ cfg.useStopLoss /\ rsi # Null /\ dwell
            /\ long /\ rsi > 75 /\ diff * 1000 > rsiExitProfitPct * entry
      THEN [reason |-> "watermelon-rsi-overbought", bot |-> b]
    ELSE IF ~peach /\ cfg.useStopLoss /\ rsi # Null /\ dwell
            /\ short /\ rsi < 25 /\ diff * 1000 > rsiExitProfitPct * entry
      THEN [reason |-> "watermelon-rsi-oversold", bot |-> b]
    ELSE IF peach /\ dwell /\ long /\ hi # Null
            /\ diff * 1000 > trailingActivationPct * entry
            /\ close * 1000 <= hi * (1000 - trailingStopPct)
      THEN [reason |-> "trailing-stop", bot |-> marked]
    ELSE IF peach /\ dwell /\ short /\ lo # Null
            /\ diff * 1000 > trailingActivationPct * entry
            /\ close * 1000 >= lo * (1000 + trailingStopPct)
      THEN [reason |-> "trailing-stop", bot |-> marked]
    ELSE IF effectiveStopLoss > 0 /\ (peach \/ cfg.useStopLoss) /\ beyond(effectiveStopLoss)
      THEN [reason |-> "emergency-stop", bot |-> marked]
    ELSE IF cfg.stopLossPct > 0 /\ cfg.useStopLoss /\ beyond(cfg.stopLossPct)
      THEN [reason |-> "stop-loss", bot |-> marked]
    ELSE [reason |-> "none", bot |-> marked]

\* ------------------------------------------------------------ closePosition
\* exitPrice as closePosition takes it from meta: "close" or "price" carry the
\* bar's close, any other meta falls back to the entry price (or 0)
exitPriceOf(meta, bar, pos) ==
  IF meta \in {"close", "price"} THEN bar.close
  ELSE pos.entryPrice

closeTimeOf(b, t) == IF b.lastBar.endTime # 0 THEN b.lastBar.endTime ELSE t

\* the sign of profitPct for a position closed at exitPrice
profitSign(pos, exitPrice) ==
  IF pos.entryPrice # Null
  THEN (exitPrice - pos.entryPrice) * (IF pos.side = "long" THEN 1 ELSE -1)
  ELSE 0

\* closePosition after executor.closePosition has resolved
closeResolved(b, exitPrice, t) ==
  LET signed == profitSign(b.position, exitPrice)
  IN [b EXCEPT !.highestPrice = Null,
               !.lowestPrice = Null,
               !.consecutiveLosses = IF signed < 0 THEN @ + 1 ELSE 0,
               !.lastLossTime = IF signed < 0 THEN t ELSE @,
               !.lastPositionCloseTime = closeTimeOf(b, t),
               !.position = FlatPosition]

\* variant: the reduce-only rejection leaves the position as it is
closeRejectedKeepsPosition(b, t) ==
  [b EXCEPT !.lastPositionCloseTime = closeTimeOf(b, t)]

\* closePosition after executor.closePosition has been rejected as reduce-only
closeRejected(b, t) ==
  [b EXCEPT !.lastPositionCloseTime = closeTimeOf(b, t),
            !.position = FlatPosition]

\* variant: every rejection is taken as a close already done on the venue
closeSettledSwallowsError(b, outcome, exitPrice, t) ==
  IF outcome = "ok" THEN closeResolved(b, exitPrice, t) ELSE closeRejected(b, t)

\* closePosition from its await on: the executor resolved, rejected the close
\* as reduce-only, or failed with another error, which is rethrown before
\* anything is written
closeSettled(b, outcome, exitPrice, t) ==
  IF outcome = "ok" THEN closeResolved(b, exitPrice, t)
  ELSE IF outcome = "reduceOnly" THEN closeRejected(b, t)
  ELSE b

\* the handler suspended on executor.closePosition
closeSubmitted(task, pc, reason, exitPrice, b, t) ==
  [task EXCEPT !.pc = pc, !.reason = reason, !.exitPrice = exitPrice,
               !.target = b.position, !.frozenAtSubmit = Frozen(b, t)]


\* ------------------------------------------------------------ admission gate
shouldAllowTrading(e, threshold) == e.ind.adx = Null \/ e.ind.adx > threshold

\* variant: the target one risk distance away from the entry
riskRewardOneToOne(ind, sig, bar) ==
  LET long == sig = "long"
      entry == bar.close * 2000
      atrStop == IF long THEN entry - ind.atr * 3000 ELSE entry + ind.atr * 3000
      stopLossPrice ==
        IF long
        THEN IF ind.recentLow # Null /\ ind.recentLow < bar.close
             THEN Min(ind.recentLow * 1998, atrStop) ELSE atrStop
        ELSE IF ind.recentHigh # Null /\ ind.recentHigh > bar.close
             THEN Max(ind.recentHigh * 2002, atrStop) ELSE atrStop
      riskDistance == IF long THEN entry - stopLossPrice ELSE stopLossPrice - entry
      takeProfitPrice == IF long THEN entry + riskDistance ELSE entry - riskDistance
  IN [riskDistance |-> riskDistance,
      rewardDistance |-> IF long THEN takeProfitPrice - entry ELSE entry - takeProfitPrice]

\* the projected stop and target of applySignal, prices in units of 1/2000 so
\* that 1.5 x ATR and the 0.999 / 1.001 swing buffers stay integers
riskReward(ind, sig, bar) ==
  LET long == sig = "long"
      entry == bar.close * 2000
      atrStop == IF long THEN entry - ind.atr * 3000 ELSE entry + ind.atr * 3000
      stopLossPrice ==
        IF long
        THEN IF ind.recentLow # Null /\ ind.recentLow < bar.close
             THEN Min(ind.recentLow * 1998, atrStop) ELSE atrStop
        ELSE IF ind.recentHigh # Null /\ ind.recentHigh > bar.close
             THEN Max(ind.recentHigh * 2002, atrStop) ELSE atrStop
      riskDistance == IF long THEN entry - stopLossPrice ELSE stopLossPrice - entry
      takeProfitPrice == IF long THEN entry + riskDistance * 2 ELSE entry - riskDistance * 2
  IN [riskDistance |-> riskDistance,
      rewardDistance |-> IF long THEN takeProfitPrice - entry ELSE entry - takeProfitPrice]

\* riskRewardRatio < 2.0
riskRewardTooLow(ind, sig, bar) ==
  \E p \in {riskReward(ind, sig, bar)} :
    IF p.riskDistance > 0 THEN p.rewardDistance < 2 * p.riskDistance ELSE TRUE

canFlip(b, cfg, timestamp) ==
  LET windowStart == timestamp - HOUR_MS
      kept == SelectSeq(b.flipHistory, LAMBDA x : x >= windowStart)
  IN [ok |-> Len(kept) < cfg.maxFlipsPerHour, bot |-> [b EXCEPT !.flipHistory = kept]]

Opposite(side) == IF side = "long" THEN "short" ELSE "long"

\* variant: the RSI band checked before the market regime
applySignalChecksRsiFirst(b, e, cfg, sig, bar, t) ==
  LET cooling == b.consecutiveLosses >= 2 /\ t - b.lastLossTime < cooldownPeriod
      b1 == IF b.consecutiveLosses >= 2 /\ ~cooling
            THEN [b EXCEPT !.consecutiveLosses = 0] ELSE b
      peach == cfg.isPeachHybrid
      rsi == e.ind.rsi
      timestamp == bar.endTime
      minTimeAfterClose == minBarsAfterClose * timeframeMs
      flip == canFlip(b1, cfg, timestamp)
  IN
  IF cooling THEN [outcome |-> "loss-cooldown", bot |-> b]
  ELSE IF peach /\ e.ind.adx = Null THEN [outcome |-> "adx-not-ready", bot |-> b1]
  ELSE IF peach /\ rsi # Null /\ sig = "long" /\ (rsi < 30 \/ rsi > 75)
    THEN [outcome |-> "rsi-extreme", bot |-> b1]
  ELSE IF peach /\ rsi # Null /\ sig = "short" /\ (rsi < 25 \/ rsi > 70)
    THEN [outcome |-> "rsi-extreme", bot |-> b1]
  ELSE IF peach /\ ~shouldAllowTrading(e, adxThreshold)
    THEN [outcome |-> "not-trending", bot |-> b1]
  ELSE IF peach /\ e.ind.atr # Null /\ e.ind.atr > 0 /\ riskRewardTooLow(e.ind, sig, bar)
    THEN [outcome |-> "risk-reward", bot |-> b1]
  ELSE IF b1.position.side = sig THEN [outcome |-> "same-side", bot |-> b1]
  ELSE IF b1.lastPositionCloseTime > 0
          /\ timestamp - b1.lastPositionCloseTime < minTimeAfterClose
    THEN [outcome |-> "close-cooldown", bot |-> b1]
  ELSE IF ~flip.ok THEN [outcome |-> "flip-budget", bot |-> flip.bot]
  ELSE IF flip.bot.position.side = Opposite(sig)
          /\ timestamp - flip.bot.lastPositionEntryTime < minHoldTimeMs
    THEN [outcome |-> "min-hold", bot |-> flip.bot]
  ELSE [outcome |-> "pass", bot |-> flip.bot]

\* the checks of applySignal, in the order of the source: the check that ends
\* the evaluation ("pass" when none does) and the runner after them
applySignalChecks(b, e, cfg, sig, bar, t) ==
  LET cooling == b.consecutiveLosses >= 2 /\ t - b.lastLossTime < cooldownPeriod
      b1 == IF b.consecutiveLosses >= 2 /\ ~cooling
            THEN [b EXCEPT !.consecutiveLosses = 0] ELSE b
      peach == cfg.isPeachHybrid
      rsi == e.ind.rsi
      timestamp == bar.endTime
      minTimeAfterClose == minBarsAfterClose * timeframeMs
      flip == canFlip(b1, cfg, timestamp)
  IN
  IF cooling THEN [outcome |-> "loss-cooldown", bot |-> b]
  ELSE IF peach /\ e.ind.adx = Null THEN [outcome |-> "adx-not-ready", bot |-> b1]
  ELSE IF peach /\ ~shouldAllowTrading(e, adxThreshold)
    THEN [outcome |-> "not-trending", bot |-> b1]
  ELSE IF peach /\ e.ind.atr # Null /\ e.ind.atr > 0 /\ riskRewardTooLow(e.ind, sig, bar)
    THEN [outcome |-> "risk-reward", bot |-> b1]
  ELSE IF peach /\ rsi # Null /\ sig = "long" /\ (rsi < 30 \/ rsi > 75)
    THEN [outcome |-> "rsi-extreme", bot |-> b1]
  ELSE IF peach /\ rsi # Null /\ sig = "short" /\ (rsi < 25 \/ rsi > 70)
    THEN [outcome |-> "rsi-extreme", bot |-> b1]
  ELSE IF b1.position.side = sig THEN [outcome |-> "same-side", bot |-> b1]
  ELSE IF b1.lastPositionCloseTime > 0
          /\ timestamp - b1.lastPositionCloseTime < minTimeAfterClose
    THEN [outcome |-> "close-cooldown", bot |-> b1]
  ELSE IF ~flip.ok THEN [outcome |-> "flip-budget", bot |-> flip.bot]
  ELSE IF flip.bot.position.side = Opposite(sig)
          /\ timestamp - flip.bot.lastPositionEntryTime < minHoldTimeMs
    THEN [outcome |-> "min-hold", bot |-> flip.bot]
  ELSE [outcome |-> "pass", bot |-> flip.bot]

\* what logSignal records for a check that ended the evaluation; the same-side
\* return writes no entry
skipLogged(outcome) ==
  IF outcome = "same-side" THEN NoLog
  ELSE [action |-> "SKIPPED", skipReason |-> outcome]

takenLogged == [action |-> "TAKEN", skipReason |-> ""]

\* ------------------------------------------------------------ enterPosition
orderSize(cfg) == Max(cfg.maxPositionSize, 1)

\* variant: the balance is not looked at before the order is sent
insufficientBalanceNever(b, cfg) == FALSE

\* usdtBalance < requiredMargin, requiredMargin = order.size / order.leverage
insufficientBalance(b, cfg) == b.usdtBalance * cfg.maxLeverage < orderSize(cfg)

\* variant: the trailing marks of the position before are kept
enterResolvedKeepMarks(b, cfg, side, bar) ==
  [b EXCEPT !.position = [side |-> side, size |-> orderSize(cfg),
                          entryPrice |-> bar.close, openedAt |-> bar.endTime],
            !.lastPositionEntryTime = bar.endTime,
            !.flipHistory = Append(@, bar.endTime)]

\* enterPosition after executor.enterLong / enterShort has resolved
enterResolved(b, cfg, side, bar) ==
  [b EXCEPT !.position = [side |-> side, size |-> orderSize(cfg),
                          entryPrice |-> bar.close, openedAt |-> bar.endTime],
            !.lastPositionEntryTime = bar.endTime,
            !.highestPrice = IF side = "long" THEN bar.close ELSE Null,
            !.lowestPrice = IF side = "short" THEN bar.close ELSE Null,
            !.flipHistory = Append(@, bar.endTime)]

enterResolvedState(p, cfg, side, bar) ==
  updateLocalState(
    setPendingOrder(p, [side |-> side, size |-> orderSize(cfg), timestamp |-> bar.endTime]),
    side, orderSize(cfg), bar.close)


\* ------------------------------------------------------------ bar handlers
\* indicator values after engine.update, one case per combination the checks
\* of applySignal and evaluateProtectiveExits tell apart
IndicatorCases ==
  {[adx |-> Null, rsi |-> 50, atr |-> Null, recentHigh |-> Null, recentLow |-> Null],
   [adx |-> 20, rsi |-> 80, atr |-> 1, recentHigh |-> 101, recentLow |-> 99],
   [adx |-> 30, rsi |-> 50, atr |-> 1, recentHigh |-> 101, recentLow |-> 99],
   [adx |-> 30, rsi |-> 80, atr |-> Null, recentHigh |-> Null, recentLow |-> Null],
   [adx |-> 30, rsi |-> 20, atr |-> 1, recentHigh |-> Null, recentLow |-> Null]}

Signals == {"none", "long", "short"}

\* variant: handleBarClose not chained behind evaluateProtectiveExits
handleTickNextUnchained(reason) == "hb"

\* where the promise chain of handleTick is after the synchronous part of
\* evaluateProtectiveExits: suspended in its close, or on to handleBarClose
handleTickNext(reason) == IF reason # "none" THEN "peClose" ELSE "hb"

\* handleTick with a closed bar: evaluateProtectiveExits up to its first await
HandleTick(h, close) ==
  /\ running = 0
  /\ bot.unsubscribers > 0
  /\ tasks[h].pc = "idle"
  /\ \A g \in Handlers : g < h => tasks[g].pc # "idle"
  /\ now > barEnd
  /\ barEnd' = now
  /\ LET bar == [endTime |-> now, close |-> close]
         pe == evaluateProtectiveExits(bot, eng, config, bar)
         t0 == [IdleTask EXCEPT !.bar = bar, !.frozenAtTick = Frozen(bot, now)]
         next == handleTickNext(pe.reason)
     IN /\ bot' = pe.bot
        /\ IF next = "peClose"
           THEN /\ tasks' = [tasks EXCEPT ![h] =
                       closeSubmitted(t0, "peClose", pe.reason,
                                      exitPriceOf("close", bar, pe.bot.position), pe.bot, now)]
                /\ running' = 0
           ELSE /\ tasks' = [tasks EXCEPT ![h] =
                       [t0 EXCEPT !.pc = "hb", !.peDone = (pe.reason = "none")]]
                /\ running' = h
  /\ hist' = bestAfterBar(hist, bot.position, close)
  /\ ev' = [kind |-> "tick", h |-> h, bar |-> [endTime |-> now, close |-> close]]
  /\ UNCHANGED <<now, config, psm, eng, timers, nPolls, nSteps, genuineRun, freezeStart,
                 lossRun>>

\* handleBarClose up to applySignal (or its own close)
HandleBarClose(h, exit, sig, ind) ==
  /\ running = h
  /\ tasks[h].pc = "hb"
  /\ LET task == tasks[h]
         bar == task.bar
         b1 == [bot EXCEPT !.lastBarCloseTime = bar.endTime, !.lastBar = bar]
         b2 == [b1 EXCEPT !.tradingFrozen = FALSE]
         pos == b2.position
         timeSinceEntry ==
           bar.endTime - (IF pos.openedAt # Null THEN pos.openedAt ELSE b2.lastPositionEntryTime)
         \* what the call did with the bar; engine.update runs in the last case only
         done(did) == [kind |-> "barClose", h |-> h, bar |-> bar, did |-> did]
     IN
     IF bar.endTime <= bot.lastBarCloseTime
     THEN /\ tasks' = [tasks EXCEPT ![h] = IdleTask]
          /\ running' = 0
          /\ ev' = done("stale")
          /\ UNCHANGED <<bot, eng>>
     ELSE IF Frozen(b1, now)
     THEN /\ bot' = b1
          /\ tasks' = [tasks EXCEPT ![h] = IdleTask]
          /\ running' = 0
          /\ ev' = done("frozen")
          /\ UNCHANGED eng
     ELSE IF /\ pos.side # "flat" /\ config.isPeachHybrid
             /\ timeSinceEntry >= minTimeBeforePeachExit
             /\ eng.position # "flat" /\ exit
     THEN /\ bot' = b2
          /\ tasks' = [tasks EXCEPT ![h] =
                 closeSubmitted(task, "hbClose", "rsi-reversal",
                                exitPriceOf("details", bar, pos), b2, now)]
          /\ running' = 0
          /\ ev' = done("exit")
          /\ UNCHANGED eng
     ELSE /\ bot' = b2
          /\ ev' = done("update")
          /\ eng' = [eng EXCEPT !.ind = ind]
          /\ IF sig = "none"
             THEN /\ tasks' = [tasks EXCEPT ![h] = IdleTask]
                  /\ running' = 0
             ELSE /\ tasks' = [tasks EXCEPT ![h] = [task EXCEPT !.pc = "gate", !.signal = sig]]
                  /\ running' = h
  /\ UNCHANGED <<now, config, psm, timers, barEnd, nPolls, nSteps, genuineRun, freezeStart,
                 lossRun, hist>>

\* enterPosition up to its executor call: the handler and the signal log after it
beginEnter(task, b, cfg, t) ==
  IF insufficientBalance(b, cfg)
  THEN [task |-> IdleTask, log |-> takenLogged]
  ELSE [task |-> [task EXCEPT !.pc = "enter", !.frozenAtSubmit = Frozen(b, t)], log |-> NoLog]

\* applySignal up to its first executor call
ApplySignal(h) ==
  /\ running = h
  /\ tasks[h].pc = "gate"
  /\ LET task == tasks[h]
         g == applySignalChecks(bot, eng, config, task.signal, task.bar, now)
         be == beginEnter(task, g.bot, config, now)
         gated(log) == [kind |-> "gate", h |-> h, outcome |-> g.outcome, log |-> log,
                        signal |-> task.signal, bar |-> task.bar, held |-> bot.position.side,
                        entry |-> FALSE]
     IN
     /\ bot' = g.bot
     /\ running' = 0
     /\ IF g.outcome # "pass"
        THEN /\ tasks' = [tasks EXCEPT ![h] = IdleTask]
             /\ ev' = gated(skipLogged(g.outcome))
        ELSE IF g.bot.position.side = Opposite(task.signal)
        THEN /\ tasks' = [tasks EXCEPT ![h] =
                    closeSubmitted(task, "flipClose",
                                   IF task.signal = "long" THEN "flip-long" ELSE "flip-short",
                                   exitPriceOf("price", task.bar, g.bot.position), g.bot, now)]
             /\ ev' = gated(NoLog)
        ELSE /\ tasks' = [tasks EXCEPT ![h] = be.task]
             /\ ev' = gated(be.log)
  /\ lossRun' = IF lossRun.n >= 2 /\ now - lossRun.last >= cooldownPeriod
                THEN [lossRun EXCEPT !.n = 0] ELSE lossRun
  /\ UNCHANGED <<now, config, psm, eng, timers, barEnd, nPolls, nSteps,
                 genuineRun, freezeStart, hist>>

\* executor.closePosition settles: the rest of closePosition and of its caller
\* up to the next await
CloseReturn(h, outcome) ==
  /\ running = 0
  /\ tasks[h].pc \in {"peClose", "hbClose", "flipClose"}
  /\ LET task == tasks[h]
         b1 == closeSettled(bot, outcome, task.exitPrice, now)
         be == beginEnter(task, b1, config, now)
         closed(log) == [kind |-> "closeReturn", h |-> h, from |-> task.pc, outcome |-> outcome,
                         exitPrice |-> task.exitPrice,
                         used |-> bot.position, target |-> task.target, log |-> log,
                         entry |-> FALSE, bar |-> task.bar, signal |-> task.signal,
                         lossesBefore |-> bot.consecutiveLosses]
     IN
     /\ bot' = b1
     /\ eng' = IF outcome = "ok" /\ config.isPeachHybrid
               THEN [eng EXCEPT !.position = "flat"] ELSE eng
     /\ IF outcome = "error" \/ task.pc = "hbClose"
        THEN /\ tasks' = [tasks EXCEPT ![h] = IdleTask]
             /\ running' = 0
             /\ ev' = closed(NoLog)
        ELSE IF task.pc = "peClose"
        THEN /\ tasks' = [tasks EXCEPT ![h] =
                    [task EXCEPT !.pc = "hb", !.peDone = TRUE, !.peOutcome = outcome]]
             /\ running' = h
             /\ ev' = closed(NoLog)
        ELSE /\ tasks' = [tasks EXCEPT ![h] = be.task]
             /\ running' = 0
             /\ ev' = closed(be.log)
  /\ lossRun' = IF outcome # "ok" THEN lossRun
                ELSE IF profitSign(tasks[h].target, tasks[h].exitPrice) < 0
                THEN [n |-> Min(lossRun.n + 1, 2), last |-> now]
                ELSE [lossRun EXCEPT !.n = 0]
  /\ hist' = IF outcome = "error" THEN hist
             ELSE [hist EXCEPT !.closedBar = tasks[h].bar.endTime, !.heldSince = 0, !.best = 0]
  /\ UNCHANGED <<now, config, psm, timers, barEnd, nPolls, nSteps,
                 genuineRun, freezeStart>>

\* executor.enterLong / enterShort settles: the rest of enterPosition; entry
\* tells whether tradeStats.startTrade and logEntry have run
EnterReturn(h, outcome) ==
  /\ running = 0
  /\ tasks[h].pc = "enter"
  /\ LET task == tasks[h]
         flip == task.pc = "enter" /\ task.reason \in FlipReasons
         entered(log) == [kind |-> "enterReturn", h |-> h, outcome |-> outcome, side |-> task.signal,
                          bar |-> task.bar, flip |-> flip, log |-> log,
                          entry |-> outcome = "ok"]
     IN
     /\ tasks' = [tasks EXCEPT ![h] = IdleTask]
     /\ IF outcome = "ok"
        THEN /\ bot' = enterResolved(bot, config, task.signal, task.bar)
             /\ psm' = enterResolvedState(psm, config, task.signal, task.bar)
             /\ eng' = IF config.isPeachHybrid
                       THEN [eng EXCEPT !.position = task.signal] ELSE eng
             /\ hist' = [hist EXCEPT !.heldSince = task.bar.endTime, !.best = task.bar.close,
                                     !.flips = IF flip THEN Append(@, task.bar.endTime) ELSE @]
             /\ ev' = entered(takenLogged)
        ELSE IF outcome = "insufficient"
        THEN /\ ev' = entered(takenLogged)
             /\ UNCHANGED <<bot, psm, eng, hist>>
        ELSE /\ ev' = entered(NoLog)
             /\ UNCHANGED <<bot, psm, eng, hist>>
  /\ UNCHANGED <<now, config, timers, running, barEnd, nPolls, nSteps,
                 genuineRun, freezeStart, lossRun>>

\* ------------------------------------------------------------ specification
\* Spec: two bar handlers may overlap; the poller reports flat or one position
\* per side; every bar brings indicator values that pass the admission gate.
RaceReports ==
  {[positionAmt |-> 0, entryPrice |-> 0],
   [positionAmt |-> 1, entryPrice |-> 100],
   [positionAmt |-> -1, entryPrice |-> 100]}

RaceIndicators ==
  {[adx |-> 30, rsi |-> 50, atr |-> 1, recentHigh |-> 101, recentLow |-> 99]}

Next ==
  \/ \E report \in RaceReports : RestPosition(report, MaxPolls)
  \/ RestBalance(10)
  \/ UnfreezeTimer
  \/ Advance(timeframeMs, MaxSteps)
  \/ \E h \in Handlers, close \in Prices : HandleTick(h, close)
  \/ \E h \in Handlers, exit \in BOOLEAN, sig \in Signals, ind \in RaceIndicators :
        HandleBarClose(h, exit, sig, ind)
  \/ \E h \in Handlers : ApplySignal(h)
  \/ \E h \in Handlers, outcome \in {"ok", "reduceOnly", "error"} : CloseReturn(h, outcome)
  \/ \E h \in Handlers, outcome \in {"ok", "insufficient", "error"} : EnterReturn(h, outcome)

Spec == Init /\ [][Next]_vars

\* SpecRecon: one bar handler at a time, a longer run of polls and clock steps
\* so that freezes begin, are extended and end.
NextRecon ==
  \/ \E report \in RaceReports : RestPosition(report, ReconPolls)
  \/ RestBalance(10)
  \/ UnfreezeTimer
  \/ Advance(timeframeMs, ReconSteps)
  \/ \E close \in Prices : HandleTick(1, close)
  \/ \E exit \in BOOLEAN, sig \in Signals, ind \in RaceIndicators :
        HandleBarClose(1, exit, sig, ind)
  \/ ApplySignal(1)
  \/ \E outcome \in {"ok", "reduceOnly", "error"} : CloseReturn(1, outcome)
  \/ \E outcome \in {"ok", "insufficient", "error"} : EnterReturn(1, outcome)

SpecRecon == Init /\ [][NextRecon]_vars

\* SpecGate: one bar handler at a time and every indicator case.
GateReports ==
  {[positionAmt |-> 0, entryPrice |-> 0],
   [positionAmt |-> 1, entryPrice |-> 100]}

GatePrices == {99, 100}

NextGate ==
  \/ \E report \in GateReports : RestPosition(report, GatePolls)
  \/ RestBalance(10)
  \/ UnfreezeTimer
  \/ Advance(timeframeMs, GateSteps)
  \/ \E close \in GatePrices : HandleTick(1, close)
  \/ \E exit \in BOOLEAN, sig \in Signals, ind \in IndicatorCases :
        HandleBarClose(1, exit, sig, ind)
  \/ ApplySignal(1)
  \/ \E outcome \in {"ok", "reduceOnly", "error"} : CloseReturn(1, outcome)
  \/ \E outcome \in {"ok", "insufficient", "error"} : EnterReturn(1, outcome)

SpecGate == Init /\ [][NextGate]_vars

\* SpecCool: one bar handler at a time, the clock moving by a bar or by the
\* loss cooldown.
NextCool ==
  \/ \E report \in GateReports : RestPosition(report, CoolPolls)
  \/ RestBalance(10)
  \/ UnfreezeTimer
  \/ \E d \in {timeframeMs, cooldownPeriod} : Advance(d, CoolSteps)
  \/ \E close \in GatePrices : HandleTick(1, close)
  \/ \E exit \in BOOLEAN, sig \in Signals, ind \in RaceIndicators :
        HandleBarClose(1, exit, sig, ind)
  \/ ApplySignal(1)
  \/ \E outcome \in {"ok", "reduceOnly", "error"} : CloseReturn(1, outcome)
  \/ \E outcome \in {"ok", "insufficient", "error"} : EnterReturn(1, outcome)

SpecCool == Init /\ [][NextCool]_vars

\* SpecFlip: one bar handler at a time, the clock moving by the minimum hold
\* time so that one flip after the other passes the minimum-hold check.
NextFlip ==
  \/ \E report \in GateReports : RestPosition(report, FlipPolls)
  \/ RestBalance(10)
  \/ UnfreezeTimer
  \/ Advance(minHoldTimeMs, FlipSteps)
  \/ \E close \in GatePrices : HandleTick(1, close)
  \/ \E exit \in BOOLEAN, sig \in Signals, ind \in RaceIndicators :
        HandleBarClose(1, exit, sig, ind)
  \/ ApplySignal(1)
  \/ \E outcome \in {"ok", "reduceOnly", "error"} : CloseReturn(1, outcome)
  \/ \E outcome \in {"ok", "insufficient", "error"} : EnterReturn(1, outcome)

SpecFlip == Init /\ [][NextFlip]_vars

\* SpecRisk: one bar handler at a time, every risk configuration, bars that
\* close 2 % below and 1 % and 2 % above the reported entry price.
RiskPrices == {98, 101, 102}

RiskIndicators ==
  {[adx |-> 20, rsi |-> 50, atr |-> 1, recentHigh |-> 101, recentLow |-> 99],
   [adx |-> 30, rsi |-> 50, atr |-> 1, recentHigh |-> 101, recentLow |-> 99]}

NextRisk ==
  \/ \E report \in GateReports : RestPosition(report, RiskPolls)
  \/ RestBalance(10)
  \/ UnfreezeTimer
  \/ Advance(timeframeMs, RiskSteps)
  \/ \E close \in RiskPrices : HandleTick(1, close)
  \/ \E exit \in BOOLEAN, sig \in Signals, ind \in RiskIndicators :
        HandleBarClose(1, exit, sig, ind)
  \/ ApplySignal(1)
  \/ \E outcome \in {"ok", "reduceOnly", "error"} : CloseReturn(1, outcome)
  \/ \E outcome \in {"ok", "insufficient", "error"} : EnterReturn(1, outcome)

SpecRisk == InitRisk /\ [][NextRisk]_vars

\* ------------------------------------------------------------ properties
StrategyPcs == {"hb", "hbClose", "gate", "flipClose", "enter"}

C2_OneEntryInFlight ==
  Cardinality({h \in Handlers : tasks[h].pc = "enter"}) <= 1

\* C3: while trading is frozen applySignal submits no entry and no flip
\* close, also for a handler that was running when the freeze began.
C3_NoSubmitWhileFrozen ==
  \A h \in Handlers :
    tasks[h].pc \in {"enter", "flipClose"} => ~tasks[h].frozenAtSubmit

\* a bar close at or beyond 1 % against the position
LosingBeyondStop(pos, close) ==
  /\ pos.side # "flat" /\ pos.entryPrice # Null
  /\ \/ pos.side = "long" /\ close * 100 <= pos.entryPrice * 99
     \/ pos.side = "short" /\ close * 100 >= pos.entryPrice * 101

\* C4: while trading is frozen evaluateProtectiveExits still runs on every
\* closed bar: a bar that closes 1 % or more against the open position has
\* its close submitted although trading is frozen.
C4_ExitsWhileFrozen ==
  [][\A h \in Handlers :
       (/\ tasks[h].pc = "idle" /\ tasks'[h].pc # "idle"
        /\ Frozen(bot, now)
        /\ config.isPeachHybrid \/ config.useStopLoss
        /\ LosingBeyondStop(bot.position, tasks'[h].bar.close))
       => tasks'[h].pc = "peClose"]_vars

C4_Witness ==
  \E h \in Handlers :
    /\ tasks[h].pc = "hb" /\ tasks[h].frozenAtTick
    /\ tasks[h].peOutcome = "ok"
    /\ Frozen(bot, now) /\ bot.position.side = "flat"

\* C8: the position closePosition computes the trade result from, after its
\* await, is the position the handler set out to close.
C8_CloseUsesTarget ==
  (ev.kind = "closeReturn" /\ ev.outcome = "ok") =>
     /\ ev.used.side = ev.target.side
     /\ ev.used.entryPrice = ev.target.entryPrice
     /\ ev.used.size = ev.target.size

\* C5: whenever updateFromRest returns true the local side, size and
\* avgEntry equal the authoritative report and the failure counter is 0.
C5_AdoptsReport ==
  (ev.kind = "poll" /\ ev.ok) =>
     /\ psm.state.side = ev.rest.side
     /\ psm.state.size = ev.rest.size
     /\ psm.state.avgEntry = ev.rest.avgEntry
     /\ psm.reconciliationFailures = 0

C5_Witness ==
  /\ ev.kind = "poll" /\ ev.ok
  /\ ev.failuresBefore > 0
  /\ ev.rest.side # "flat" /\ ev.localSide = ev.rest.side

\* C6: every mismatch that is not a stale-view case increments the failure
\* counter; from the counter reaching 2 trading is frozen, it stays frozen
\* for 60 s after the freeze was triggered, and it is unfrozen only with the
\* counter at 0.
C6_FrozenUntilReset ==
  /\ (ev.kind = "poll" /\ ~ev.ok) =>
        psm.reconciliationFailures = ev.failuresBefore + 1
  /\ psm.reconciliationFailures >= maxReconciliationFailures => bot.tradingFrozen
  /\ (freezeStart > 0 /\ now < freezeStart + freezeDurationMs) => bot.tradingFrozen

\* C7, as stated: a flat report against a flat local view never increments
\* the failure counter; after three consecutive genuine mismatches trading
\* is frozen.
C7_ThreeMismatchesFreeze ==
  ev.kind = "poll" =>
     /\ (ev.rest.side = "flat" /\ ev.localSide = "flat") =>
           ev.ok /\ psm.reconciliationFailures <= ev.failuresBefore
     /\ genuineRun.all >= 3 => Frozen(bot, now)

\* C7, amended: a flat report against a flat local view never increments the
\* failure counter; after three consecutive genuine mismatches between which
\* no unfreeze timer has fired trading is frozen.
C7_ThreeMismatchesNoTimer ==
  ev.kind = "poll" =>
     /\ (ev.rest.side = "flat" /\ ev.localSide = "flat") =>
           ev.ok /\ psm.reconciliationFailures <= ev.failuresBefore
     /\ genuineRun.sinceTimer >= 3 => Frozen(bot, now)

C7_Witness ==
  /\ ev.kind = "poll" /\ genuineRun.sinceTimer >= 3
  /\ Frozen(bot, now)

\* the checks of the admission gate in the stated order, each as a condition
\* on the runner, the engine and the signal before applySignal runs
GateOrder ==
  <<"loss-cooldown", "adx-not-ready", "not-trending", "risk-reward", "rsi-extreme",
    "same-side", "close-cooldown", "flip-budget", "min-hold">>

GateFails(k, sig, bar) ==
  LET peach == config.isPeachHybrid
      ind == eng.ind
      flipsInWindow == Cardinality({i \in 1..Len(bot.flipHistory) :
                                      bot.flipHistory[i] >= bar.endTime - HOUR_MS})
  IN CASE k = 1 -> bot.consecutiveLosses >= 2 /\ now - bot.lastLossTime < HOUR_MS
       [] k = 2 -> peach /\ ind.adx = Null
       [] k = 3 -> peach /\ ind.adx # Null /\ ind.adx <= adxThreshold
       [] k = 4 -> peach /\ ind.atr > 0 /\ riskRewardTooLow(ind, sig, bar)
       [] k = 5 -> /\ peach /\ ind.rsi # Null
                   /\ IF sig = "long" THEN ind.rsi < 30 \/ ind.rsi > 75
                      ELSE ind.rsi < 25 \/ ind.rsi > 70
       [] k = 6 -> bot.position.side = sig
       [] k = 7 -> /\ bot.lastPositionCloseTime > 0
                   /\ bar.endTime - bot.lastPositionCloseTime < 2 * timeframeMs
       [] k = 8 -> flipsInWindow >= config.maxFlipsPerHour
       [] k = 9 -> /\ bot.position.side \notin {"flat", sig}
                   /\ bar.endTime - bot.lastPositionEntryTime < minHoldTimeMs

FirstFailing(sig, bar) ==
  LET failing == {k \in 1..Len(GateOrder) : GateFails(k, sig, bar)}
  IN IF failing = {} THEN "pass"
     ELSE GateOrder[CHOOSE k \in failing : \A m \in failing : k <= m]

\* C9: applySignal ends at the first failing check in the order loss
\* cooldown, ADX readiness, market regime, risk/reward, RSI band, same side,
\* post-close cooldown, flip budget, minimum hold; it then submits no order
\* and the skip it records carries the reason of that check.
C9_FirstFailingCheck ==
  [][\A h \in Handlers :
       (running = h /\ tasks[h].pc = "gate" /\ ev'.kind = "gate") =>
          LET first == FirstFailing(tasks[h].signal, tasks[h].bar)
          IN /\ ev'.outcome = first
             /\ first # "pass" =>
                   /\ tasks'[h].pc = "idle"
                   /\ ev'.log = IF first = "same-side" THEN NoLog
                                ELSE [action |-> "SKIPPED", skipReason |-> first]]_vars

\* a signal stopped by the market regime while the RSI band would stop it too
C9_Witness ==
  /\ ev.kind = "gate" /\ ev.outcome = "not-trending"
  /\ config.isPeachHybrid /\ eng.ind.rsi > 75

\* C10: after two consecutive losing closes every signal evaluated within
\* one hour of the most recent loss is skipped.
C10_CooldownAfterTwoLosses ==
  (ev.kind = "gate" /\ lossRun.n >= 2 /\ now - lossRun.last < HOUR_MS) =>
     ev.outcome # "pass"

\* the flips applied in the hour that ends with the bar
FlipsApplied(bar) ==
  Cardinality({i \in 1..Len(hist.flips) : hist.flips[i] >= bar.endTime - HOUR_MS})

\* C11: with maxFlipsPerHour = N a signal for the side opposite to the held
\* one is skipped as flip budget exhausted only when N flips have been
\* applied in the hour before its bar, so that of N+1 such signals N are
\* applied.
C11_BudgetAfterNFlips ==
  (ev.kind = "gate" /\ ev.outcome = "flip-budget" /\ ev.held = Opposite(ev.signal)) =>
     FlipsApplied(ev.bar) >= config.maxFlipsPerHour

\* C12: after a position is closed while the bar ending at T is processed, no
\* signal opens a position on a bar ending before T + 2 x timeframe; the
\* entry that completes a flip on the bar of its own close is left aside.
C12_NoOpenAfterClose ==
  (ev.kind = "enterReturn" /\ ev.outcome = "ok" /\ ~ev.flip /\ hist.closedBar > 0) =>
     ev.bar.endTime >= hist.closedBar + minBarsAfterClose * timeframeMs

\* C13: a signal for the side opposite to the held position passes the checks
\* only when that position has been held for the minimum hold time, whether
\* the runner entered it or adopted it from a report.
C13_MinHoldForEveryPosition ==
  (ev.kind = "gate" /\ ev.outcome = "pass" /\ ev.held = Opposite(ev.signal)) =>
     ev.bar.endTime - hist.heldSince >= minHoldTimeMs

\* C14: a signal for the side opposite to the held position that passes all
\* checks first submits the close of that position with a flip reason; the
\* entry is submitted only when that close has completed and the runner is
\* flat; when the entry has resolved the new side is held, the bar's time is
\* appended to the flip history and the trailing marks are those of the new
\* entry.
C14_CloseThenOpen ==
  [][\A h \in Handlers :
       /\ (/\ running = h /\ tasks[h].pc = "gate"
           /\ ev'.kind = "gate" /\ ev'.outcome = "pass"
           /\ bot.position.side = Opposite(tasks[h].signal))
          => /\ tasks'[h].pc = "flipClose"
             /\ tasks'[h].reason = IF tasks[h].signal = "long" THEN "flip-long" ELSE "flip-short"
             /\ tasks'[h].target = bot.position
       /\ (tasks[h].pc = "flipClose" /\ tasks'[h].pc = "enter")
          => /\ ev'.kind = "closeReturn" /\ ev'.outcome \in {"ok", "reduceOnly"}
             /\ bot'.position = FlatPosition
       /\ (/\ tasks[h].pc = "enter" /\ tasks[h].reason \in FlipReasons
           /\ ev'.kind = "enterReturn" /\ ev'.h = h /\ ev'.outcome = "ok")
          => /\ bot'.position.side = tasks[h].signal
             /\ bot'.position.entryPrice = tasks[h].bar.close
             /\ bot'.flipHistory = Append(bot.flipHistory, tasks[h].bar.endTime)
             /\ bot'.highestPrice = IF tasks[h].signal = "long" THEN tasks[h].bar.close ELSE Null
             /\ bot'.lowestPrice = IF tasks[h].signal = "short" THEN tasks[h].bar.close ELSE Null]_vars

\* a flip applied: closed and opened on the same bar
C14_Witness ==
  /\ ev.kind = "enterReturn" /\ ev.outcome = "ok" /\ ev.flip
  /\ bot.position.side = ev.side
  /\ hist.closedBar = ev.bar.endTime
  /\ Len(hist.flips) > 0

\* C15: a signal is skipped for the market not trending only when the
\* configuration requires a trending market and ADX does not exceed the
\* threshold.
C15_RegimeOnlyWhenRequired ==
  (ev.kind = "gate" /\ ev.outcome = "not-trending") =>
     /\ config.requireTrendingMarket
     /\ eng.ind.adx # Null /\ eng.ind.adx <= adxThreshold

\* a bar close at or beyond pct (tenths of a percent) against the position
BeyondDistance(pos, close, pct) ==
  \/ pos.side = "long" /\ close * 1000 <= pos.entryPrice * (1000 - pct)
  \/ pos.side = "short" /\ close * 1000 >= pos.entryPrice * (1000 + pct)

\* C16: with a position open for 30 s or more, a bar that closes at or beyond
\* the configured emergency distance from the entry price has the close of
\* the position submitted on that bar, whatever useStopLoss, stopLossPct and
\* the strategy variant are.
C16_EmergencyAlwaysActive ==
  (/\ ev.kind = "tick"
   /\ bot.position.side # "flat" /\ bot.position.entryPrice # Null
   /\ bot.position.openedAt # Null
   /\ ev.bar.endTime - bot.position.openedAt >= minTimeBeforeExit
   /\ BeyondDistance(bot.position, ev.bar.close, config.emergencyStopLoss))
  => tasks[ev.h].pc = "peClose"

\* C17: for a position opened at P with the configured emergency stop
\* percentage S a close with reason emergency-stop is submitted only for a
\* bar that closes at or beyond P*(1-S/100) (long) or P*(1+S/100) (short),
\* and a bar that closes exactly there has the position closed with reason
\* emergency-stop.
C17_EmergencyThreshold ==
  ev.kind = "tick" =>
     LET task == tasks[ev.h]
         pos == bot.position
         S == config.emergencyStopLoss
     IN /\ (task.pc = "peClose" /\ task.reason = "emergency-stop") =>
              BeyondDistance(pos, ev.bar.close, S)
        /\ (/\ pos.side # "flat" /\ pos.entryPrice # Null
            /\ ev.bar.close * 1000 =
                 pos.entryPrice * (IF pos.side = "long" THEN 1000 - S ELSE 1000 + S))
           => task.pc = "peClose" /\ task.reason = "emergency-stop"

\* C18: a close with reason trailing-stop is submitted only when the profit
\* of the position exceeds the activation threshold and the bar close has
\* retraced the trailing percentage from the best bar close since the entry
\* of the position that is held.
C18_TrailingFromBestSinceEntry ==
  ev.kind = "tick" =>
     LET task == tasks[ev.h]
         pos == bot.position
         close == ev.bar.close
         diff == IF pos.side = "long" THEN close - pos.entryPrice ELSE pos.entryPrice - close
     IN (task.pc = "peClose" /\ task.reason = "trailing-stop") =>
           /\ diff * 1000 > trailingActivationPct * pos.entryPrice
           /\ IF pos.side = "long"
              THEN close * 1000 <= hist.best * (1000 - trailingStopPct)
              ELSE close * 1000 >= hist.best * (1000 + trailingStopPct)

\* C19: when executor.closePosition is rejected as reduce-only, closePosition
\* returns normally with the runner flat, and its caller goes on as after a
\* close that succeeded: the bar's handler continues to handleBarClose after
\* a protective exit, and to the entry after a flip close.
C19_ReduceOnlyTakenAsClosed ==
  (ev.kind = "closeReturn" /\ ev.outcome = "reduceOnly") =>
     /\ bot.position = FlatPosition
     /\ ev.from = "peClose" => tasks[ev.h].pc = "hb" /\ running = ev.h
     /\ ev.from = "flipClose" =>
           \/ tasks[ev.h].pc = "enter"
           \/ tasks[ev.h].pc = "idle" /\ insufficientBalance(bot, config)

C19_Witness ==
  /\ ev.kind = "closeReturn" /\ ev.outcome = "reduceOnly"
  /\ ev.used.side # "flat" /\ bot.position = FlatPosition
  /\ ev.from = "flipClose" /\ tasks[ev.h].pc = "enter"

\* C20: an executor error that is not a recognised one ends the handling of
\* the bar there: after a close that failed this way no entry is submitted,
\* and the runner's position, flip history and loss counter are as before;
\* an entry that failed this way leaves them, and the local state, as before.
C20_ErrorAborts ==
  [][\A h \in Handlers :
       /\ (/\ tasks[h].pc \in {"peClose", "hbClose", "flipClose"}
           /\ ev'.kind = "closeReturn" /\ ev'.h = h /\ ev'.outcome = "error")
          => /\ tasks'[h].pc = "idle"
             /\ bot'.position = bot.position
             /\ bot'.flipHistory = bot.flipHistory
             /\ bot'.consecutiveLosses = bot.consecutiveLosses
       /\ (/\ tasks[h].pc = "enter"
           /\ ev'.kind = "enterReturn" /\ ev'.h = h /\ ev'.outcome = "error")
          => /\ tasks'[h].pc = "idle"
             /\ bot'.position = bot.position
             /\ bot'.flipHistory = bot.flipHistory
             /\ bot'.consecutiveLosses = bot.consecutiveLosses
             /\ psm' = psm]_vars

\* a flip whose close failed: the position is still held, nothing is in flight
C20_Witness ==
  /\ ev.kind = "closeReturn" /\ ev.outcome = "error" /\ ev.from = "flipClose"
  /\ bot.position.side # "flat" /\ bot.position = ev.used
  /\ tasks[ev.h].pc = "idle"

\* C21: an entry attempt that meets an insufficient balance, at the check
\* before the order is sent or as the executor's rejection, ends there: the
\* handler returns normally with no order left in flight, and the position,
\* the flip history, the pending-order marker and the trade log are as they
\* were (after a flip close: as the close left them).
ShortOfMargin == bot'.usdtBalance * config.maxLeverage < Max(config.maxPositionSize, 1)

NothingEntered ==
  /\ tasks'[ev'.h] = IdleTask
  /\ ev'.log = takenLogged
  /\ ~ev'.entry
  /\ Len(bot'.flipHistory) <= Len(bot.flipHistory)
  /\ hist'.flips = hist.flips
  /\ psm' = psm

C21_InsufficientSkipped ==
  [][/\ (ev'.kind = "gate" /\ ev'.outcome = "pass" /\ ev'.held = "flat" /\ ShortOfMargin)
          => NothingEntered /\ bot'.position = bot.position
     /\ (ev'.kind = "closeReturn" /\ ev'.from = "flipClose" /\ ev'.outcome # "error"
           /\ ShortOfMargin)
          => NothingEntered /\ bot'.position = FlatPosition
     /\ (ev'.kind = "enterReturn" /\ ev'.outcome = "insufficient")
          => NothingEntered /\ bot' = bot /\ hist' = hist]_vars

\* the executor has rejected the entry order of a flip for balance
C21_Witness == ev.kind = "enterReturn" /\ ev.outcome = "insufficient" /\ ev.flip

\* C22: after a poll whose report reconciles and shows the position of the
\* submitted order (same side, same size), the pending-order marker that
\* enterPosition set is no longer on the reconciler's local state.
C22_ConfirmClearsPending ==
  (ev.kind = "poll" /\ ev.ok /\ ev.rest.side # "flat")
    => ~(/\ psm.state.pendingOrder # NoOrder
         /\ psm.state.pendingOrder.side = ev.rest.side
         /\ psm.state.pendingOrder.size = ev.rest.size)

\* ------------------------------------------------------------ stop
\* stop() up to `await this.tickStream.stop()`: the poller is stopped
StopCall ==
  /\ running = 0
  /\ bot.stopPc # "awaitStream"
  /\ bot' = [bot EXCEPT !.polling = FALSE, !.stopPc = "awaitStream"]
  /\ ev' = [kind |-> "stop", again |-> bot.stopPc = "done"]
  /\ UNCHANGED <<now, config, psm, eng, timers, tasks, running, barEnd, nPolls, nSteps,
                 genuineRun, freezeStart, lossRun, hist>>

\* the rest of stop(): the tick handlers are taken off and the list is emptied
StopResume ==
  /\ running = 0
  /\ bot.stopPc = "awaitStream"
  /\ bot' = [bot EXCEPT !.unsubscribers = 0, !.stopPc = "done"]
  /\ ev' = [kind |-> "stopped"]
  /\ UNCHANGED <<now, config, psm, eng, timers, tasks, running, barEnd, nPolls, nSteps,
                 genuineRun, freezeStart, lossRun, hist>>

\* SpecStop: one bar handler, the poller and the clock as in Spec, and stop()
\* called at any moment, also a second time.
NextStop ==
  \/ \E report \in RaceReports : RestPosition(report, MaxPolls)
  \/ RestBalance(10)
  \/ UnfreezeTimer
  \/ Advance(timeframeMs, MaxSteps)
  \/ \E close \in Prices : HandleTick(1, close)
  \/ \E exit \in BOOLEAN, sig \in Signals, ind \in RaceIndicators :
        HandleBarClose(1, exit, sig, ind)
  \/ ApplySignal(1)
  \/ \E outcome \in {"ok", "reduceOnly", "error"} : CloseReturn(1, outcome)
  \/ \E outcome \in {"ok", "insufficient", "error"} : EnterReturn(1, outcome)
  \/ StopCall
  \/ StopResume

SpecStop == Init /\ [][NextStop]_vars

\* ------------------------------------------------------------ polling for ever
\* SpecLive: no bar arrives and no order is sent; the poller delivers one
\* report per clock step, for ever. Times are kept relative to now: a clock
\* step moves the pending timers and the end of the freeze towards now
\* instead of moving now away from them (the program only compares them with
\* Date.now()). The history variables of the other specifications are not
\* kept here.
LiveReports ==
  RaceReports \cup {[positionAmt |-> 2, entryPrice |-> 100],
                    [positionAmt |-> 1, entryPrice |-> 110]}

LiveClock(d) ==
  /\ running = 0
  /\ \A i \in 1..Len(timers) : timers[i] > now
  /\ timers' = [i \in 1..Len(timers) |-> timers[i] - d]
  /\ bot' = [bot EXCEPT !.freezeUntil = IF @ > now THEN @ - d ELSE @]
  /\ nPolls' = 0
  /\ ev' = [kind |-> "clock"]
  /\ UNCHANGED <<now, config, psm, eng, tasks, running, barEnd, nSteps,
                 genuineRun, freezeStart, lossRun, hist>>

NextLive ==
  \/ \E report \in LiveReports : RestPosition(report, 1)
  \/ UnfreezeTimer
  \/ LiveClock(timeframeMs)

\* the poller's interval timer, the unfreeze timers and the clock all go on
SpecLive ==
  /\ Init
  /\ [][NextLive]_vars
  /\ WF_vars(\E report \in LiveReports : RestPosition(report, 1))
  /\ WF_vars(UnfreezeTimer)
  /\ WF_vars(LiveClock(timeframeMs))

\* ------------------------------------------------------------ ADX
\* JavaScript numbers of the indicator: null, NaN, Infinity or a finite value
\* held in thousandths. Products and quotients round down to the thousandth;
\* over the runs below no positive value gets small enough to round to zero.
Milli == 1000

Num(x) == [k |-> "num", v |-> x]
NullNum == [k |-> "null", v |-> 0]
NaN == [k |-> "nan", v |-> 0]
Infinity == [k |-> "inf", v |-> 0]

\* the value of an expression computed once: the element of a one-element set
only(S) == CHOOSE x \in S : TRUE

\* null in arithmetic is 0
toNumber(a) == only({IF x.k = "null" THEN Num(0) ELSE x : x \in {a}})

\* a + b, a * b, a / b and |a - b| for operands that are not negative
fadd(a, b) ==
  only({
     IF x.k = "nan" \/ y.k = "nan" THEN NaN
     ELSE IF x.k = "inf" \/ y.k = "inf" THEN Infinity
     ELSE Num(x.v + y.v)
     : x \in {toNumber(a)}, y \in {toNumber(b)}})

fmul(a, b) ==
  only({
     IF x.k = "nan" \/ y.k = "nan" THEN NaN
     ELSE IF x.k = "inf" \/ y.k = "inf"
     THEN (IF x = Num(0) \/ y = Num(0) THEN NaN ELSE Infinity)
     ELSE Num((x.v * y.v) \div Milli)
     : x \in {toNumber(a)}, y \in {toNumber(b)}})

fdiv(a, b) ==
  only({
     IF x.k = "nan" \/ y.k = "nan" THEN NaN
     ELSE IF x.k = "inf" THEN (IF y.k = "inf" THEN NaN ELSE Infinity)
     ELSE IF y.k = "inf" THEN Num(0)
     ELSE IF y.v = 0 THEN (IF x.v = 0 THEN NaN ELSE Infinity)
     ELSE Num((x.v * Milli) \div y.v)
     : x \in {toNumber(a)}, y \in {toNumber(b)}})

fabsdiff(a, b) ==
  only({
     IF x.k = "nan" \/ y.k = "nan" THEN NaN
     ELSE IF x.k = "inf" \/ y.k = "inf"
     THEN (IF x.k = y.k THEN NaN ELSE Infinity)
     ELSE Num(Abs(x.v - y.v))
     : x \in {toNumber(a)}, y \in {toNumber(b)}})

RECURSIVE fsum(_)
fsum(values) == IF values = <<>> THEN Num(0) ELSE fadd(Head(values), fsum(Tail(values)))

\* a === 0
isZero(a) == a.k = "num" /\ a.v = 0

\* push, then shift when the window is longer than length
pushWindow(values, x, length) ==
  IF Len(values) + 1 > length THEN Tail(Append(values, x)) ELSE Append(values, x)

\* new ADX(length)
newADX(length) ==
  [length |-> length, trValues |-> <<>>, plusDMValues |-> <<>>, minusDMValues |-> <<>>,
   dxValues |-> <<>>, prevHigh |-> NullNum, prevLow |-> NullNum, prevClose |-> NullNum,
   prevATR |-> NullNum, prevPlusDI |-> NullNum, prevMinusDI |-> NullNum,
   adxValue |-> NullNum, updateCount |-> 0]

trueRange(high, low, prevClose) ==
  Max(high - low, Max(Abs(high - prevClose), Abs(low - prevClose)))

\* variant: the up move counts whatever the low does
plusDMUpMove(high, low, prevHigh, prevLow) == Max(high - prevHigh, 0)

plusDM(high, low, prevHigh, prevLow) ==
  IF high > prevHigh /\ low > prevLow THEN Max(high - prevHigh, 0) ELSE 0

minusDM(high, low, prevHigh, prevLow) ==
  IF prevHigh > high /\ prevLow > low THEN Max(prevLow - low, 0) ELSE 0

\* variant: the directional indicators are seeded one update later
stillCollectingLate(a) == a.updateCount < a.length + 2

\* this.updateCount < this.length + 1
stillCollecting(a) == a.updateCount < a.length + 1

\* the +DI and -DI of this update, from the windows at the seeding update and
\* by Wilder's smoothing afterwards
directionalIndicators(a, tr) ==
  LET len == Num(a.length * Milli)
      hundred == Num(100 * Milli)
      alpha == fdiv(Num(Milli), len)
      rest == Num(Milli - alpha.v)
      last(values) == Num(values[Len(values)])
      nums(values) == [i \in 1..Len(values) |-> Num(values[i])]
  IN IF a.updateCount = a.length + 1
     THEN LET atr == fdiv(fsum(nums(a.trValues)), len)
          IN [atr |-> atr,
              plusDI |-> fmul(fdiv(fdiv(fsum(nums(a.plusDMValues)), len), atr), hundred),
              minusDI |-> fmul(fdiv(fdiv(fsum(nums(a.minusDMValues)), len), atr), hundred)]
     ELSE LET atr == fadd(fmul(a.prevATR, rest), fmul(Num(tr), alpha))
              smooth(prevDI, dm) ==
                fadd(fmul(fmul(fdiv(prevDI, hundred), a.prevATR), rest), fmul(last(dm), alpha))
          IN [atr |-> atr,
              plusDI |-> fmul(fdiv(smooth(a.prevPlusDI, a.plusDMValues), atr), hundred),
              minusDI |-> fmul(fdiv(smooth(a.prevMinusDI, a.minusDMValues), atr), hundred)]

\* the end of ADX.update, from diSum on: a is the object before the call, a1
\* the object with the bar counted, di the directional indicators of the bar
adxFromDI(a, a1, di, diSum) ==
  IF isZero(diSum) THEN [adx |-> a1, atZero |-> TRUE]
  ELSE only({
    LET alpha == fdiv(Num(Milli), Num(a.length * Milli))
        dxs == IF a1.updateCount = a1.length + 1 \/ a.adxValue.k = "null"
               THEN Append(a.dxValues, dx) ELSE a.dxValues
        adx == IF a1.updateCount = a1.length + 1 THEN a.adxValue
               ELSE IF a.adxValue.k = "null"
               THEN (IF Len(dxs) >= a.length
                     THEN fdiv(fsum(dxs), Num(Len(dxs) * Milli)) ELSE a.adxValue)
               ELSE fadd(fmul(a.adxValue, Num(Milli - alpha.v)), fmul(dx, alpha))
    IN [adx |-> [a1 EXCEPT !.dxValues = dxs, !.adxValue = adx, !.prevATR = di.atr,
                           !.prevPlusDI = di.plusDI, !.prevMinusDI = di.minusDI],
        atZero |-> FALSE]
    : dx \in {fmul(fdiv(fabsdiff(di.plusDI, di.minusDI), diSum), Num(100 * Milli))}})

\* ADX.update(high, low, close): the object after the call, and whether the
\* call left at diSum === 0
adxStep(a, high, low, close) ==
  LET seen == [a EXCEPT !.prevHigh = Num(high), !.prevLow = Num(low), !.prevClose = Num(close)]
  IN IF a.prevHigh.k = "null" \/ a.prevLow.k = "null" \/ a.prevClose.k = "null"
     THEN [adx |-> seen, atZero |-> FALSE]
     ELSE
     LET tr == trueRange(high, low, a.prevClose.v)
         a1 == [seen EXCEPT
                  !.updateCount = @ + 1,
                  !.trValues = pushWindow(@, tr, a.length),
                  !.plusDMValues =
                      pushWindow(@, plusDM(high, low, a.prevHigh.v, a.prevLow.v), a.length),
                  !.minusDMValues =
                      pushWindow(@, minusDM(high, low, a.prevHigh.v, a.prevLow.v), a.length)]
     IN IF stillCollecting(a1) THEN [adx |-> a1, atZero |-> FALSE]
        ELSE only({adxFromDI(a, a1, di, fadd(di.plusDI, di.minusDI)) :
                     di \in {directionalIndicators(a1, tr)}})

\* the object after update; the call returns its adxValue
adxUpdate(a, high, low, close) == adxStep(a, high, low, close).adx

\* SpecAdx: one ADX of length 2..MaxAdxLength is fed bars one call at a time:
\* a bar without range, a bar above it, and a bar that reaches beyond it on
\* both sides.
MaxAdxLength == 3
AdxLengths == 2..MaxAdxLength
AdxCalls == 2 * MaxAdxLength + 3

AdxBars ==
  {[high |-> 100 * Milli, low |-> 100 * Milli, close |-> 100 * Milli],
   [high |-> 102 * Milli, low |-> 101 * Milli, close |-> 102 * Milli],
   [high |-> 101 * Milli, low |-> 98 * Milli, close |-> 100 * Milli]}

runnerVars == <<now, config, bot, psm, timers, tasks, running, barEnd, nPolls, nSteps,
                genuineRun, freezeStart, lossRun, hist>>

\* calls counts the calls of update; zeroSums the calls that returned at
\* diSum === 0
InitAdx ==
  InitOf({WatermellonConfig},
         {[adx |-> newADX(length), calls |-> 0, zeroSums |-> 0] : length \in AdxLengths})

AdxUpdate(bar) ==
  /\ eng.calls < AdxCalls
  /\ \E step \in {adxStep(eng.adx, bar.high, bar.low, bar.close)} :
     LET a == step.adx
         counted == eng.adx.prevHigh.k # "null"
     IN /\ eng' = [adx |-> a, calls |-> eng.calls + 1,
                   zeroSums |-> eng.zeroSums + (IF step.atZero THEN 1 ELSE 0)]
        /\ ev' = [kind |-> "adx", counted |-> counted, bar |-> bar,
                  prevHigh |-> eng.adx.prevHigh.v, prevLow |-> eng.adx.prevLow.v,
                  plusDM |-> IF counted THEN a.plusDMValues[Len(a.plusDMValues)] ELSE 0,
                  minusDM |-> IF counted THEN a.minusDMValues[Len(a.minusDMValues)] ELSE 0]
  /\ UNCHANGED runnerVars

NextAdx == \E bar \in AdxBars : AdxUpdate(bar)

SpecAdx == InitAdx /\ [][NextAdx]_vars

C28_OneDirectionalMove ==
  (ev.kind = "adx" /\ ev.counted) =>
    LET up == ev.bar.high - ev.prevHigh
        down == ev.prevLow - ev.bar.low
    IN /\ ~(ev.plusDM # 0 /\ ev.minusDM # 0)
       /\ ev.plusDM # 0 => (ev.plusDM = up /\ up > down)
       /\ ev.minusDM # 0 => (ev.minusDM = down /\ down > up)
       /\ (up <= 0 /\ down <= 0) => (ev.plusDM = 0 /\ ev.minusDM = 0)

\* an update that kept +DM
C28_Witness == ev.kind = "adx" /\ ev.counted /\ ev.plusDM > 0 /\ ev.minusDM = 0

\* ------------------------------------------------------------ risk/reward
\* SpecRiskReward: the risk/reward block of applySignal on its own, for a
\* signal, a bar close and the engine's indicators
RewardCloses == {99, 100, 101}
RewardAtrs == {Null, 1, 2}
RewardSwings == {Null, 97, 99, 100, 101, 103}

ProjectRiskReward ==
  /\ eng.pc = "idle"
  /\ eng' = IF eng.ind.atr # Null /\ eng.ind.atr > 0
            THEN [eng EXCEPT !.pc = "checked",
                             !.projected = riskReward(eng.ind, eng.sig, eng.bar),
                             !.skipped = riskRewardTooLow(eng.ind, eng.sig, eng.bar)]
            ELSE [eng EXCEPT !.pc = "unchecked"]
  /\ ev' = [kind |-> "riskReward"]
  /\ UNCHANGED runnerVars

SpecRiskReward ==
  /\ InitOf({WatermellonConfig},
            {[pc |-> "idle", sig |-> sig, bar |-> [endTime |-> StartTime, close |-> close],
              ind |-> [adx |-> 30, rsi |-> 50, atr |-> atr,
                       recentHigh |-> high, recentLow |-> low],
              projected |-> [riskDistance |-> 0, rewardDistance |-> 0],
              skipped |-> FALSE] :
               sig \in {"long", "short"}, close \in RewardCloses, atr \in RewardAtrs,
               high \in RewardSwings, low \in RewardSwings})
  /\ [][ProjectRiskReward]_vars

\* ------------------------------------------------------------ ATR
newATR(length) ==
  [length |-> length, trValues |-> <<>>, prevHigh |-> NullNum, prevLow |-> NullNum,
   prevClose |-> NullNum, atrValue |-> NullNum, updateCount |-> 0]

\* ATR.update(high, low, close): the object after the call
atrUpdate(a, high, low, close) ==
  LET seen == [a EXCEPT !.prevHigh = Num(high), !.prevLow = Num(low), !.prevClose = Num(close)]
  IN IF a.prevHigh.k = "null" \/ a.prevLow.k = "null" \/ a.prevClose.k = "null" THEN seen
     ELSE
     LET tr == trueRange(high, low, a.prevClose.v)
         a1 == [seen EXCEPT !.updateCount = @ + 1, !.trValues = pushWindow(@, tr, a.length)]
         alpha == fdiv(Num(Milli), Num(a.length * Milli))
     IN IF a1.updateCount < a1.length THEN a1
        ELSE IF a1.updateCount = a1.length
        THEN [a1 EXCEPT !.atrValue =
                fdiv(fsum([i \in 1..Len(a1.trValues) |-> Num(a1.trValues[i])]),
                     Num(Len(a1.trValues) * Milli))]
        ELSE [a1 EXCEPT !.atrValue =
                fadd(fmul(a.atrValue, Num(Milli - alpha.v)), fmul(Num(tr), alpha))]

\* ------------------------------------------------------------ strategy engines
\* The EMA and RSI objects hand the engines one reading per bar. An RSI of
\* length n has no value before its n-th update.
rsiLength == 2
adxLength == 2
minBarsBetween == 2

WatermellonStrategy ==
  [rsiMinLong |-> 42, rsiMaxShort |-> 58, adxLength |-> adxLength, adxThreshold |-> adxThreshold]

\* minMovePercent in hundredths of a percent, volumeMultiplier in tenths
PeachStrategy ==
  [v1 |-> [rsiLength |-> rsiLength, rsiMinLong |-> 42, rsiMaxShort |-> 58,
           minBarsBetween |-> minBarsBetween, minMovePercent |-> 10],
   v2 |-> [rsiMomentumThreshold |-> 3, volumeLookback |-> 4, volumeMultiplier |-> 15]]

rsiValue(updates, length, reading) == IF updates < length THEN NullNum ELSE Num(reading)

bullStack(r) == r.emaFast > r.emaMid /\ r.emaMid > r.emaSlow
bearStack(r) == r.emaFast < r.emaMid /\ r.emaMid < r.emaSlow

NoSignal == [type |-> "none", system |-> "none"]

\* variant: the trigger is the look itself
risingEdgeLevel(look, lastLook) == look

\* look && !lastLook
risingEdge(look, lastLook) == look /\ ~lastLook

\* new WatermellonEngine(config)
newWatermellon(cfg) ==
  [adx |-> newADX(cfg.adxLength), lastLongLook |-> FALSE, lastShortLook |-> FALSE]

watermellonLook(cfg, r) ==
  [long |-> bullStack(r) /\ r.rsi > cfg.rsiMinLong /\ r.rsi > 55,
   short |-> bearStack(r) /\ r.rsi < cfg.rsiMaxShort /\ r.rsi < 45]

\* adxValue === null || adxValue < this.config.adxThreshold; a comparison
\* with NaN is false
belowThreshold(adxValue, cfg) ==
  \/ adxValue.k = "null"
  \/ adxValue.k = "num" /\ adxValue.v < cfg.adxThreshold * Milli

\* WatermellonEngine.update(bar) with the readings r of its EMAs and RSI: the
\* engine after the call and the signal returned
watermellonUpdate(e, cfg, bar, r) ==
  only({
  LET look == watermellonLook(cfg, r)
      longTrig == risingEdge(look.long, e.lastLongLook)
      shortTrig == risingEdge(look.short, e.lastShortLook)
  IN IF belowThreshold(a.adxValue, cfg)
     THEN [eng |-> [adx |-> a, lastLongLook |-> FALSE, lastShortLook |-> FALSE],
           signal |-> NoSignal, evaluated |-> FALSE]
     ELSE [eng |-> [adx |-> a, lastLongLook |-> look.long, lastShortLook |-> look.short],
           signal |-> IF longTrig THEN [type |-> "long", system |-> "trend"]
                      ELSE IF shortTrig THEN [type |-> "short", system |-> "trend"]
                      ELSE NoSignal,
           evaluated |-> TRUE]
  : a \in {adxUpdate(e.adx, bar.high, bar.low, bar.close)}})

\* new PeachHybridEngine(config)
newPeach(cfg) ==
  [v1LastLongLook |-> FALSE, v1LastShortLook |-> FALSE, v1LastLongPrice |-> 0,
   v1LastShortPrice |-> 0, v1BarsSinceLastSignal |-> 0, v2RsiHistory |-> <<>>,
   volumeHistory |-> <<>>, adx |-> newADX(14), atr |-> newATR(14),
   recentHighs |-> <<>>, recentLows |-> <<>>, updates |-> 0]

v1Look(cfg, r, rsi) ==
  [long |-> /\ rsi.k # "null" /\ bullStack(r) /\ r.emaMicroFast > r.emaMicroSlow
            /\ rsi.v > cfg.v1.rsiMinLong,
   short |-> /\ rsi.k # "null" /\ bearStack(r) /\ r.emaMicroFast < r.emaMicroSlow
             /\ rsi.v < cfg.v1.rsiMaxShort]

\* Math.abs((price - last) / last) * 100 >= minMovePercent
movedFrom(price, last, cfg) == Abs(price - last) * 100 * 100 >= cfg.v1.minMovePercent * last

\* variant: the check against the last short price replaces the one against
\* the last long price
priceMoveMetLastWins(e, price, cfg) ==
  IF e.v1LastShortPrice > 0 THEN movedFrom(price, e.v1LastShortPrice, cfg)
  ELSE IF e.v1LastLongPrice > 0 THEN movedFrom(price, e.v1LastLongPrice, cfg)
  ELSE TRUE

priceMoveMet(e, price, cfg) ==
  /\ e.v1LastLongPrice > 0 => movedFrom(price, e.v1LastLongPrice, cfg)
  /\ e.v1LastShortPrice > 0 => movedFrom(price, e.v1LastShortPrice, cfg)

\* checkV1System: the engine after the call and the signal returned
checkV1System(e1, cfg, price, r, rsi) ==
  only({
  LET look == v1Look(cfg, r, rsi)
      longTrig == risingEdge(look.long, e.v1LastLongLook)
      shortTrig == risingEdge(look.short, e.v1LastShortLook)
      seen == [e EXCEPT !.v1LastLongLook = look.long, !.v1LastShortLook = look.short]
  IN IF rsi.k = "null" THEN [eng |-> e, signal |-> NoSignal]
     ELSE IF e.v1BarsSinceLastSignal < cfg.v1.minBarsBetween THEN [eng |-> e, signal |-> NoSignal]
     ELSE IF ~priceMoveMet(e, price, cfg) THEN [eng |-> e, signal |-> NoSignal]
     ELSE IF longTrig
     THEN [eng |-> [seen EXCEPT !.v1LastLongPrice = price, !.v1BarsSinceLastSignal = 0],
           signal |-> [type |-> "long", system |-> "v1"]]
     ELSE IF shortTrig
     THEN [eng |-> [seen EXCEPT !.v1LastShortPrice = price, !.v1BarsSinceLastSignal = 0],
           signal |-> [type |-> "short", system |-> "v1"]]
     ELSE [eng |-> seen, signal |-> NoSignal]
  : e \in {e1}})

RECURSIVE sumOf(_)
sumOf(values) == IF values = <<>> THEN 0 ELSE Head(values) + sumOf(Tail(values))

\* the conditions of checkV2System for each side
v2Look(e, cfg, r, rsi, bar) ==
  LET h == e.v2RsiHistory
      ready == rsi.k # "null" /\ Len(h) >= 3 /\ Len(e.volumeHistory) # 0
      rsiMomentum == h[Len(h)] - h[Len(h) - 2]
      rsiSurge == Abs(rsiMomentum) >= cfg.v2.rsiMomentumThreshold
      volumeSpike == bar.volume * Len(e.volumeHistory) * 10
                       >= sumOf(e.volumeHistory) * cfg.v2.volumeMultiplier
      volumeColor == bar.close > bar.open
  IN [long |-> ready /\ rsiSurge /\ rsiMomentum > 0 /\ volumeSpike /\ volumeColor /\ bullStack(r),
      short |-> ready /\ rsiSurge /\ rsiMomentum < 0 /\ volumeSpike /\ ~volumeColor
                /\ bearStack(r)]

\* checkV2System: the signal returned (the call changes nothing)
checkV2System(e, cfg, r, rsi, bar) ==
  IF v2Look(e, cfg, r, rsi, bar).long THEN [type |-> "long", system |-> "v2"]
  ELSE IF v2Look(e, cfg, r, rsi, bar).short THEN [type |-> "short", system |-> "v2"]
  ELSE NoSignal

\* PeachHybridEngine.update(bar) with the readings of its EMAs and RSIs: the
\* engine after the call and the signal returned
peachUpdate(e, cfg, bar, r) ==
  LET n == e.updates + 1
      v1Rsi == rsiValue(n, cfg.v1.rsiLength, r.v1.rsi)
      v2Rsi == rsiValue(n, rsiLength, r.v2.rsi)
      e1 == [e EXCEPT
               !.updates = n,
               !.adx = adxUpdate(@, bar.high, bar.low, bar.close),
               !.atr = atrUpdate(@, bar.high, bar.low, bar.close),
               !.recentHighs = pushWindow(@, bar.high, 20),
               !.recentLows = pushWindow(@, bar.low, 20),
               !.v2RsiHistory = IF v2Rsi.k # "null" THEN pushWindow(@, v2Rsi.v, 3) ELSE @,
               !.volumeHistory = pushWindow(@, bar.volume, Max(cfg.v2.volumeLookback, 10)),
               !.v1BarsSinceLastSignal = @ + 1]
  IN only({IF v1.signal # NoSignal THEN v1
           ELSE [eng |-> v1.eng, signal |-> checkV2System(v1.eng, cfg, r.v2, v2Rsi, bar)]
           : v1 \in {checkV1System(e1, cfg, bar.close, r.v1, v1Rsi)}})

\* SpecEngine: the engine of the configured variant is fed bars one update at
\* a time. held tells, per look condition, whether a signal of that side has
\* been returned and the condition has been true on every bar since; own is
\* the same for the signals of the edge-triggered rule alone (the trend rule,
\* the trend-bias sub-system) over bars on which that rule was evaluated;
\* prevLook is the look of the bar before; v1 is the last trend-bias signal.
MaxWatermellonBars == 7
MaxPeachBars == 6

NoLook == [long |-> FALSE, short |-> FALSE, v2long |-> FALSE, v2short |-> FALSE]

engineAtStart(cfg) ==
  [obj |-> IF cfg.isPeachHybrid THEN newPeach(PeachStrategy)
           ELSE newWatermellon(WatermellonStrategy),
   bars |-> 0, held |-> NoLook, own |-> NoLook, prevLook |-> NoLook,
   v1 |-> [any |-> FALSE, bars |-> 0, longPrice |-> 0, shortPrice |-> 0]]

InitEngine ==
  /\ InitOf(Configs, {engineAtStart(cfg) : cfg \in Configs})
  /\ eng = engineAtStart(config)

heldAfter(held, look, signal) ==
  [long |-> look.long /\ signal.type # "short" /\ (signal.type = "long" \/ held.long),
   short |-> look.short /\ signal.type # "long" /\ (signal.type = "short" \/ held.short),
   v2long |-> look.v2long /\ signal.type # "short" /\ (signal.type = "long" \/ held.v2long),
   v2short |-> look.v2short /\ signal.type # "long" /\ (signal.type = "short" \/ held.v2short)]

ownAfter(own, look, signal, evaluated) ==
  LET edged == signal.system \in {"trend", "v1"}
  IN [NoLook EXCEPT
        !.long = /\ look.long /\ evaluated /\ ~(edged /\ signal.type = "short")
                 /\ ((edged /\ signal.type = "long") \/ own.long),
        !.short = /\ look.short /\ evaluated /\ ~(edged /\ signal.type = "long")
                  /\ ((edged /\ signal.type = "short") \/ own.short)]

v1After(v1, signal, price) ==
  IF signal.system = "v1"
  THEN [any |-> TRUE, bars |-> 0,
        longPrice |-> IF signal.type = "long" THEN price ELSE v1.longPrice,
        shortPrice |-> IF signal.type = "short" THEN price ELSE v1.shortPrice]
  ELSE [v1 EXCEPT !.bars = @ + 1]

WatermellonReadings ==
  {[emaFast |-> 3, emaMid |-> 2, emaSlow |-> 1, rsi |-> 60],
   [emaFast |-> 3, emaMid |-> 2, emaSlow |-> 1, rsi |-> 50],
   [emaFast |-> 1, emaMid |-> 2, emaSlow |-> 3, rsi |-> 40]}

WatermellonBar(bar, r) ==
  /\ ~config.isPeachHybrid
  /\ eng.bars < MaxWatermellonBars
  /\ \E u \in {watermellonUpdate(eng.obj, WatermellonStrategy, bar, r)} :
     LET w == watermellonLook(WatermellonStrategy, r)
         look == [NoLook EXCEPT !.long = w.long, !.short = w.short]
     IN /\ eng' = [eng EXCEPT !.obj = u.eng, !.bars = @ + 1,
                              !.held = heldAfter(@, look, u.signal),
                              !.own = ownAfter(@, look, u.signal, u.evaluated),
                              !.prevLook = look]
        /\ ev' = [kind |-> "update", engine |-> "watermellon", bar |-> bar, signal |-> u.signal,
                  look |-> look, held |-> eng.held, own |-> eng.own, prevLook |-> eng.prevLook,
                  evaluated |-> u.evaluated, adx |-> u.eng.adx.adxValue, v1 |-> eng.v1]
  /\ UNCHANGED runnerVars

\* bars with their readings: quiet bars (falling, low volume, no momentum)
\* with a bearish, bullish or neutral trend-bias reading, and surge bars
\* (rising, high volume, RSI up, bullish fast EMAs)
peachBar(price, v1, surge) ==
  [bar |-> [open |-> IF surge THEN (price - 1) * Milli ELSE (price + 1) * Milli,
            high |-> (price + 1) * Milli,
            low |-> (price - 1) * Milli,
            close |-> price * Milli,
            volume |-> IF surge THEN 3 ELSE 1],
   r |-> [v1 |-> IF v1 = "bull"
                 THEN [emaFast |-> 3, emaMid |-> 2, emaSlow |-> 1, emaMicroFast |-> 2,
                       emaMicroSlow |-> 1, rsi |-> 60]
                 ELSE IF v1 = "bear"
                 THEN [emaFast |-> 1, emaMid |-> 2, emaSlow |-> 3, emaMicroFast |-> 1,
                       emaMicroSlow |-> 2, rsi |-> 40]
                 ELSE [emaFast |-> 2, emaMid |-> 2, emaSlow |-> 2, emaMicroFast |-> 2,
                       emaMicroSlow |-> 2, rsi |-> 50],
          v2 |-> IF surge THEN [emaFast |-> 3, emaMid |-> 2, emaSlow |-> 1, rsi |-> 60]
                 ELSE [emaFast |-> 2, emaMid |-> 2, emaSlow |-> 2, rsi |-> 50]]]

PeachBars ==
  {peachBar(100, "bear", FALSE), peachBar(102, "bear", FALSE),
   peachBar(101, "bull", FALSE), peachBar(101, "flat", FALSE),
   peachBar(101, "bull", TRUE), peachBar(101, "flat", TRUE)}

PeachBar(in) ==
  /\ config.isPeachHybrid
  /\ eng.bars < MaxPeachBars
  /\ \E u \in {peachUpdate(eng.obj, PeachStrategy, in.bar, in.r)} :
     LET n == eng.obj.updates + 1
         p1 == v1Look(PeachStrategy, in.r.v1, rsiValue(n, PeachStrategy.v1.rsiLength, in.r.v1.rsi))
         \* the momentum-surge conditions are read after the histories are updated
         p2 == v2Look(u.eng, PeachStrategy, in.r.v2, rsiValue(n, rsiLength, in.r.v2.rsi), in.bar)
         look == [long |-> p1.long, short |-> p1.short, v2long |-> p2.long, v2short |-> p2.short]
     IN /\ eng' = [eng EXCEPT !.obj = u.eng, !.bars = @ + 1,
                              !.held = heldAfter(@, look, u.signal),
                              !.own = ownAfter(@, look, u.signal, TRUE),
                              !.prevLook = look,
                              !.v1 = v1After(@, u.signal, in.bar.close)]
        /\ ev' = [kind |-> "update", engine |-> "peach", bar |-> in.bar, signal |-> u.signal,
                  look |-> look, held |-> eng.held, own |-> eng.own, prevLook |-> eng.prevLook,
                  evaluated |-> TRUE, adx |-> u.eng.adx.adxValue, v1 |-> eng.v1]
  /\ UNCHANGED runnerVars

NextEngine ==
  \/ \E bar \in AdxBars, r \in WatermellonReadings : WatermellonBar(bar, r)
  \/ \E in \in PeachBars : PeachBar(in)

SpecEngine == InitEngine /\ [][NextEngine]_vars

\* C23: the edge-triggered rules (the trend rule of WatermellonEngine over
\* bars that pass its ADX gate, the trend-bias sub-system of
\* PeachHybridEngine) do not return a signal of one side again while the look
\* condition of that side has been true on every bar since their last signal
\* of that side.
C23_NoRepeatFromEdgeRule ==
  (ev.kind = "update" /\ ev.signal.system \in {"trend", "v1"}) =>
    /\ ev.signal.type = "long" => ~(ev.own.long /\ ev.look.long)
    /\ ev.signal.type = "short" => ~(ev.own.short /\ ev.look.short)

\* a look that has stood since its signal stands on one more evaluated bar,
\* and no signal is returned
C23_Witness ==
  /\ ev.kind = "update" /\ ev.evaluated /\ ev.signal = NoSignal
  /\ ev.own.long /\ ev.look.long

\* C23 as stated, for every signal of either engine: a signal of one side is
\* not returned again while a look condition of that side has been true on
\* every bar since the last signal of that side.
C23_NoRepeatWhileLooking ==
  ev.kind = "update" =>
    /\ ev.signal.type = "long"
         => ~((ev.held.long /\ ev.look.long) \/ (ev.held.v2long /\ ev.look.v2long))
    /\ ev.signal.type = "short"
         => ~((ev.held.short /\ ev.look.short) \/ (ev.held.v2short /\ ev.look.v2short))

\* C24: the trend-bias sub-system returns a signal only on a bar where its
\* look condition of that side is true and was false on the bar before.
C24_EdgeOnPrecedingBar ==
  (ev.kind = "update" /\ ev.signal.system = "v1") =>
    /\ ev.signal.type = "long" => (ev.look.long /\ ~ev.prevLook.long)
    /\ ev.signal.type = "short" => (ev.look.short /\ ~ev.prevLook.short)

\* C25: a trend-bias signal that follows an earlier one comes at least
\* minBarsBetween bars after it, at a price that differs by at least
\* minMovePercent from the price of the last long trigger and from the price
\* of the last short trigger, as far as there has been one.
C25_SpacingAfterSignal ==
  (ev.kind = "update" /\ ev.signal.system = "v1" /\ ev.v1.any) =>
    /\ ev.v1.bars + 1 >= minBarsBetween
    /\ ev.v1.longPrice > 0 =>
         Abs(ev.bar.close - ev.v1.longPrice) * 100 * 100
           >= PeachStrategy.v1.minMovePercent * ev.v1.longPrice
    /\ ev.v1.shortPrice > 0 =>
         Abs(ev.bar.close - ev.v1.shortPrice) * 100 * 100
           >= PeachStrategy.v1.minMovePercent * ev.v1.shortPrice

\* a third trend-bias signal, after a long and a short trigger
C25_Witness ==
  /\ ev.kind = "update" /\ ev.signal.system = "v1"
  /\ ev.v1.longPrice > 0 /\ ev.v1.shortPrice > 0

\* C26: on a bar where the ADX is null or below the threshold
\* WatermellonEngine.update returns no signal and leaves both look flags
\* false; a signal is returned only on a bar where the ADX is at or above the
\* threshold, and on every such bar the looks are evaluated and stored.
AtOrAboveThreshold(adxValue) == adxValue.k = "num" /\ adxValue.v >= adxThreshold * Milli

C26_AdxGate ==
  (ev.kind = "update" /\ ev.engine = "watermellon") =>
    /\ (ev.adx.k = "null" \/ (ev.adx.k = "num" /\ ev.adx.v < adxThreshold * Milli))
         => /\ ev.signal = NoSignal
            /\ ~eng.obj.lastLongLook /\ ~eng.obj.lastShortLook
    /\ ev.signal # NoSignal => AtOrAboveThreshold(ev.adx)
    /\ AtOrAboveThreshold(ev.adx)
         => /\ eng.obj.lastLongLook = ev.look.long
            /\ eng.obj.lastShortLook = ev.look.short

\* ------------------------------------------------------------ AI filter
\* costs in thousandths of a dollar
GROK_COST_ESTIMATE == 1
CLAUDE_COST_ESTIMATE == 3

MaxFilterCalls == 2
MaxElapsed == 3
TimeoutChoices == {1, 2}

NoResult == [approved |-> FALSE, reasoning |-> "none", sentiment |-> "null", latencyMs |-> 0,
             grokCostUsd |-> 0, claudeCostUsd |-> 0, error |-> "undefined"]

\* the catch block of evaluateSignal
errorResult(errorMessage, latencyMs) ==
  [approved |-> FALSE, reasoning |-> "AI filter unavailable", sentiment |-> "null",
   latencyMs |-> latencyMs, grokCostUsd |-> 0, claudeCostUsd |-> 0, error |-> errorMessage]

\* the try block of evaluateSignal after both calls
decisionResult(approved, sentiment, latencyMs) ==
  [approved |-> approved, reasoning |-> "decision", sentiment |-> sentiment,
   latencyMs |-> latencyMs, grokCostUsd |-> GROK_COST_ESTIMATE,
   claudeCostUsd |-> CLAUDE_COST_ESTIMATE, error |-> "undefined"]

\* the catch block of evaluateSignalWithTimeout
timeoutResult(errorMessage, timeoutMs) ==
  [approved |-> FALSE, reasoning |-> "AI filter timeout after", sentiment |-> "null",
   latencyMs |-> timeoutMs, grokCostUsd |-> 0, claudeCostUsd |-> 0, error |-> errorMessage]

\* the module after loading: no client, no evaluation. elapsed is the time
\* since the call; pc the position of evaluateSignal, outer that of the caller.
newFilter ==
  [clientInstance |-> FALSE, calls |-> 0, call |-> "none", pc |-> "idle", outer |-> "idle",
   sentiment |-> "null", elapsed |-> 0, timeoutMs |-> 0, timer |-> "none",
   evalAt |-> 0, evalResult |-> NoResult, result |-> NoResult]

InitFilter == InitOf({WatermellonConfig}, {newFilter})

InitAIFilter(constructed) ==
  /\ eng.call = "none"
  /\ ~eng.clientInstance
  /\ eng' = [eng EXCEPT !.clientInstance = constructed]
  /\ ev' = [kind |-> "initAIFilter", threw |-> ~constructed]
  /\ UNCHANGED runnerVars

\* what the caller gets when evaluateSignal settles: directly its result or
\* rejection, or through Promise.race unless the timer has rejected first
settled(e, res, threw) ==
  LET inner == [e EXCEPT !.pc = IF threw THEN "threw" ELSE "done",
                         !.evalAt = e.elapsed, !.evalResult = res]
  IN IF e.outer # "pending" THEN inner
     ELSE IF e.call = "plain"
          THEN [inner EXCEPT !.outer = IF threw THEN "threw" ELSE "returned", !.result = res]
          ELSE [inner EXCEPT !.outer = "returned",
                             !.result = IF threw THEN timeoutResult("constructor", e.timeoutMs)
                                        ELSE res]

\* evaluateSignal up to the first await: the client is created when missing
evaluateSignal(e, constructed) ==
  IF ~e.clientInstance /\ ~constructed
    THEN settled(e, NoResult, TRUE)
    ELSE [e EXCEPT !.clientInstance = TRUE, !.pc = "grok"]

CallIdle == eng.pc \notin {"grok", "claude"} /\ eng.timer # "armed" /\ eng.calls < MaxFilterCalls

started(call, timeoutMs, timer) ==
  [eng EXCEPT !.calls = eng.calls + 1, !.call = call, !.outer = "pending",
              !.sentiment = "null", !.elapsed = 0, !.timeoutMs = timeoutMs, !.timer = timer,
              !.evalAt = 0, !.evalResult = NoResult, !.result = NoResult]

EvaluateSignal(constructed) ==
  /\ CallIdle
  /\ eng' = evaluateSignal(started("plain", 0, "none"), constructed)
  /\ ev' = [kind |-> "evaluateSignal", constructed |-> constructed]
  /\ UNCHANGED runnerVars

EvaluateSignalWithTimeout(timeoutMs, constructed) ==
  /\ CallIdle
  /\ eng' = evaluateSignal(started("timed", timeoutMs, "armed"), constructed)
  /\ ev' = [kind |-> "evaluateSignalWithTimeout", constructed |-> constructed]
  /\ UNCHANGED runnerVars

\* getSentiment resolves or rejects
GrokReturn(outcome) ==
  /\ eng.pc = "grok"
  /\ eng' = IF outcome = "fail"
              THEN settled(eng, errorResult("API Error", eng.elapsed), FALSE)
              ELSE [eng EXCEPT !.pc = "claude", !.sentiment = outcome]
  /\ ev' = [kind |-> "grokReturn", failed |-> outcome = "fail"]
  /\ UNCHANGED runnerVars

\* getDecision resolves or rejects
ClaudeReturn(outcome) ==
  /\ eng.pc = "claude"
  /\ eng' = IF outcome = "fail"
              THEN settled(eng, errorResult("API Error", eng.elapsed), FALSE)
              ELSE settled(eng, decisionResult(outcome = "approve", eng.sentiment, eng.elapsed),
                           FALSE)
  /\ ev' = [kind |-> "claudeReturn", failed |-> outcome = "fail"]
  /\ UNCHANGED runnerVars

\* the callback of setTimeout runs once the delay has passed, not before, and
\* only when the event loop gets to it
TimerFire ==
  /\ eng.timer = "armed"
  /\ eng.elapsed >= eng.timeoutMs
  /\ eng' = IF eng.outer = "pending"
              THEN [eng EXCEPT !.timer = "fired", !.outer = "returned",
                               !.result = timeoutResult("AI filter timeout", eng.timeoutMs)]
              ELSE [eng EXCEPT !.timer = "fired"]
  /\ ev' = [kind |-> "timer"]
  /\ UNCHANGED runnerVars

Elapse ==
  /\ eng.call # "none"
  /\ eng.elapsed < MaxElapsed
  /\ eng' = [eng EXCEPT !.elapsed = eng.elapsed + 1]
  /\ ev' = [kind |-> "elapse"]
  /\ UNCHANGED runnerVars

NextFilter ==
  \/ \E constructed \in BOOLEAN : InitAIFilter(constructed)
  \/ \E constructed \in BOOLEAN : EvaluateSignal(constructed)
  \/ \E timeoutMs \in TimeoutChoices, constructed \in BOOLEAN :
        EvaluateSignalWithTimeout(timeoutMs, constructed)
  \/ \E outcome \in {"BULLISH", "BEARISH", "fail"} : GrokReturn(outcome)
  \/ \E outcome \in {"approve", "veto", "fail"} : ClaudeReturn(outcome)
  \/ TimerFire
  \/ Elapse

SpecFilter == InitFilter /\ [][NextFilter]_vars

\* ------------------------------------------------------------ AI stop-loss
\* percentages in thousandths of a percent, prices in thousandths
MaxRecentPrices == 3
RecentPrices == {100 * Milli, 101 * Milli, 110 * Milli}

\* what client.chat settles with: a rejection, the timer of Promise.race
\* first, text without a JSON object, an object that does not parse, or an
\* object whose stopLossPct is a number, a string, null or absent
Responses ==
  {[kind |-> "reject", t |-> "undefined", v |-> 0],
   [kind |-> "timeout", t |-> "undefined", v |-> 0],
   [kind |-> "text", t |-> "undefined", v |-> 0],
   [kind |-> "badJson", t |-> "undefined", v |-> 0],
   [kind |-> "json", t |-> "number", v |-> 100],
   [kind |-> "json", t |-> "number", v |-> 1500],
   [kind |-> "json", t |-> "number", v |-> 5000],
   [kind |-> "json", t |-> "number", v |-> -1000],
   [kind |-> "json", t |-> "numericString", v |-> 2000],
   [kind |-> "json", t |-> "string", v |-> 0],
   [kind |-> "json", t |-> "null", v |-> 0],
   [kind |-> "json", t |-> "undefined", v |-> 0]}

\* the mean of |p[i] - p[i-1]| / p[i-1] * 100, 0 for fewer than two prices
calculateVolatility(recentPrices) ==
  IF Len(recentPrices) < 2 THEN Num(0)
  ELSE LET returns == [i \in 1..(Len(recentPrices) - 1) |->
                         fmul(fdiv(fabsdiff(Num(recentPrices[i + 1]), Num(recentPrices[i])),
                                   Num(recentPrices[i])),
                              Num(100 * Milli))]
       IN fdiv(fsum(returns), Num(Len(returns) * Milli))

\* getAIStopLossSuggestion from the settling of Promise.race on: Number() of
\* the parsed field clamped by Math.max(0.5, Math.min(3.0, x)), or the
\* fallback of the catch block; Math.min and Math.max return NaN for NaN
stopLossSuggestion(response, volatility) ==
  LET clamp(x) == IF x.k = "nan" THEN NaN
                  ELSE IF x.k = "inf" THEN Num(3000)
                  ELSE Num(Max(500, Min(3000, x.v)))
      number == IF response.t \in {"number", "numericString"} THEN Num(response.v)
                ELSE IF response.t = "null" THEN Num(0)
                ELSE NaN
  IN IF response.kind = "json"
     THEN [stopLossPct |-> clamp(number), source |-> "ai"]
     ELSE [stopLossPct |-> clamp(fadd(fmul(volatility, Num(1500)), Num(500))),
           source |-> "fallback"]

\* the call up to its await: the volatility of the recent prices is taken
GetAIStopLossSuggestion(recentPrices) ==
  /\ eng.pc # "chat"
  /\ eng' = [eng EXCEPT !.pc = "chat", !.volatility = calculateVolatility(recentPrices)]
  /\ ev' = [kind |-> "stopLossCall", prices |-> recentPrices]
  /\ UNCHANGED runnerVars

ChatSettles(response) ==
  /\ eng.pc = "chat"
  /\ eng' = [eng EXCEPT !.pc = "returned",
                        !.result = stopLossSuggestion(response, eng.volatility)]
  /\ ev' = [kind |-> "stopLossReturn", response |-> response]
  /\ UNCHANGED runnerVars

NextStopLoss ==
  \/ \E n \in 0..MaxRecentPrices : \E recentPrices \in [1..n -> RecentPrices] :
        GetAIStopLossSuggestion(recentPrices)
  \/ \E response \in Responses : ChatSettles(response)

SpecStopLoss ==
  /\ InitOf({WatermellonConfig},
            {[pc |-> "idle", volatility |-> Num(0),
              result |-> [stopLossPct |-> NullNum, source |-> "none"]]})
  /\ [][NextStopLoss]_vars

\* C29: once stop() has completed no tick and no report is handled any more,
\* a further stop() changes nothing, and the handlers still in flight neither
\* submit an order nor change the position.
SubmittedPcs == {"peClose", "hbClose", "flipClose", "enter"}

C29_StopDiscardsInFlight ==
  [][bot.stopPc = "done" =>
       /\ ev'.kind \notin {"tick", "poll", "balance"}
       /\ ev'.kind = "stop" => (bot'.unsubscribers = 0 /\ ~bot'.polling)
       /\ bot'.position = bot.position
       /\ \A h \in Handlers :
            tasks'[h].pc \in SubmittedPcs => tasks'[h].pc = tasks[h].pc]_vars

C30_NeverThrows == eng.pc # "threw" /\ eng.outer # "threw"

C30_ErrorResult ==
  (ev.kind \in {"grokReturn", "claudeReturn"} /\ ev.failed) =>
     /\ ~eng.evalResult.approved
     /\ eng.evalResult.error = "API Error"
     /\ eng.evalResult.sentiment = "null"
     /\ eng.evalResult.grokCostUsd = 0 /\ eng.evalResult.claudeCostUsd = 0
     /\ (eng.call = "plain" => (eng.outer = "returned" /\ eng.result = eng.evalResult))

C30_TimeoutResult ==
  (eng.call = "timed" /\ eng.outer = "returned"
     /\ (eng.pc \in {"grok", "claude"} \/ eng.evalAt > eng.timeoutMs)) =>
     (~eng.result.approved /\ eng.result.error = "AI filter timeout")

\* C30: evaluateSignal never throws; when one of the two AI calls fails its
\* result is approved = false with the error set, no sentiment and both costs
\* 0; evaluateSignalWithTimeout returns approved = false with the timeout
\* error whenever the evaluation has not finished within timeoutMs.
C30_ConservativeFallback == C30_NeverThrows /\ C30_ErrorResult /\ C30_TimeoutResult

\* C31: getAIStopLossSuggestion returns a stopLossPct within [0.5, 3.0],
\* whether it comes from the AI response (whatever its content, a
\* non-numeric stopLossPct included) or from the volatility fallback.
C31_StopLossWithinBounds ==
  eng.pc = "returned" =>
    /\ eng.result.stopLossPct.k = "num"
    /\ eng.result.stopLossPct.v >= 500
    /\ eng.result.stopLossPct.v <= 3000

\* C32: every bar accepted by handleBarClose (endTime later than the last
\* processed one) is handed to the engine's update, also while trading is
\* frozen and on a bar whose exit check closes the position.
C32_EveryAcceptedBarUpdates ==
  (ev.kind = "barClose" /\ ev.did # "stale") => ev.did = "update"

\* C33: a completed close on a bar whose close is adverse to the entry price
\* of the position the close was submitted for adds one to consecutiveLosses
\* and records the loss time, whichever path asked for the close and whatever
\* the poller reported in between.
C33_AdverseCloseCountsAsLoss ==
  (ev.kind = "closeReturn" /\ ev.outcome = "ok" /\ profitSign(ev.target, ev.bar.close) < 0) =>
     /\ bot.consecutiveLosses = ev.lossesBefore + 1
     /\ bot.lastLossTime = now

\* C34: when applySignal returns true, so that the signal is logged as TAKEN,
\* an entry order for the signal's side has been submitted and the runner's
\* position is on that side; an admitted flip does not end flat.
C34_TakenMeansEntered ==
  (ev.kind \in {"gate", "closeReturn", "enterReturn"} /\ ev.log = takenLogged) =>
     /\ ev.kind = "enterReturn" /\ ev.outcome = "ok"
     /\ bot.position.side = ev.side

\* C35: when closePosition has completed the local state of the
\* PositionStateManager is flat too, and a later report of the closed
\* position is not taken as a match that puts the position back.
C35_CloseFlattensLocalState ==
  /\ (ev.kind = "closeReturn" /\ ev.outcome \in {"ok", "reduceOnly"}) =>
        (psm.state.side = "flat" /\ psm.state.size = 0)
  /\ (ev.kind = "poll" /\ ev.held = "flat" /\ ev.localSide # "flat"
        /\ ev.rest.side = ev.localSide) => bot.position.side = "flat"

\* C36: at most one call of executor.closePosition is in flight: a second
\* bar handler, or a flip beside a protective exit, submits no close for a
\* position whose close has not settled yet.
C36_OneCloseInFlight ==
  Cardinality({h \in Handlers : tasks[h].pc \in {"peClose", "hbClose", "flipClose"}}) <= 1

\* C37: when from some point on every report of the poller carries the same
\* position (and no order is sent), the local state of the reconciler
\* eventually equals that position for good and trading is eventually
\* unfrozen for good.
C37_ConvergesToAuthoritative ==
  \A report \in LiveReports :
    <>[](ev.kind = "poll" => ev.rest = normalize(report))
      => <>[](/\ psm.state.side = normalize(report).side
              /\ psm.state.size = normalize(report).size
              /\ psm.state.avgEntry = normalize(report).avgEntry
              /\ ~bot.tradingFrozen)

\* C38: whenever the runner's position is flat, the trailing marks
\* highestPrice and lowestPrice are both null (after a close, after a
\* reduce-only rejection and after the poller replaced the position).
C38_FlatHasNoMarks ==
  bot.position.side = "flat" => (bot.highestPrice = Null /\ bot.lowestPrice = Null)

\* C39: with an ATR that is available and positive, the projected risk
\* distance is positive and the projected reward is exactly twice the risk,
\* so the risk/reward check does not skip the signal.
C39_RewardIsTwiceRisk ==
  eng.pc = "checked" =>
    /\ eng.projected.riskDistance > 0
    /\ eng.projected.rewardDistance = 2 * eng.projected.riskDistance
    /\ ~eng.skipped

\* a long whose stop is the swing low, further away than 1.5 x ATR
C39_SwingStopChecked ==
  /\ eng.pc = "checked"
  /\ eng.sig = "long"
  /\ eng.ind.recentLow # Null
  /\ eng.projected.riskDistance > eng.ind.atr * 3000
  /\ ~eng.skipped

\* C40: the local state of the PositionStateManager has side flat exactly
\* when its size is 0, after every entry the runner records and every report
\* of the poller.
C40_FlatIffNoSize ==
  (psm.state.side = "flat") <=> (psm.state.size = 0)

\* a report of the poller has flattened a local state written after an entry
C40_EntryThenFlatReport ==
  /\ ev.kind = "poll"
  /\ ev.localSide # "flat"
  /\ ev.rest.side = "flat"
  /\ bot.lastPositionEntryTime # 0
  /\ psm.state.size = 0

====
